---- MODULE Spec2Model ----
(***************************************************************************)
(* Sudoku engine: Board, GameState (moves, undo/redo history, completion)  *)
(* and the puzzle generator with its solution counter and hint oracle.     *)
(* Grids are 9x9 and 0-indexed as in the source: grid[row][col].           *)
(***************************************************************************)
EXTENDS Integers, Sequences, FiniteSets, TLC

\* ------------------------------------------------------------------------
\* Program constants
\* ------------------------------------------------------------------------
N == 9
BOX == 3

Idx == 0 .. (N - 1)
Digits == 1 .. N

\* ------------------------------------------------------------------------
\* Bounds of the exploration
\* ------------------------------------------------------------------------
\* history-appending calls explored after an initial state or a new_game
MaxMoves == 2
\* consecutive undone moves explored (length of the redo branch)
MaxRedo == 2
\* the _create_puzzle calls explored aim at removing at most MaxRemoved cells,
\* except under the backward cell order, explored for every target, and the
\* sparse one, explored for the targets of hard and expert
MaxRemoved == 53
\* the limits passed to _count_solutions are 1 .. MaxLimit
MaxLimit == 3
\* timer ticks followed per game
MaxTimer == 2

\* ------------------------------------------------------------------------
\* Plain grids
\* ------------------------------------------------------------------------
\* A list of lists written as a tuple of tuples, indexed from 0 as in Python.
Grid(t) == [r \in Idx |-> [c \in Idx |-> t[r + 1][c + 1]]]

ZeroGrid == [r \in Idx |-> [c \in Idx |-> 0]]
NoNotes == [r \in Idx |-> [c \in Idx |-> {}]]

\* Row-major position of a coordinate, the order of Python's tuple comparison
\* and of the nested range(9) loops.
Pos(r, c) == r * N + c
Cells == {<<r, c>> : r \in Idx, c \in Idx}

Min(S) == CHOOSE x \in S : \A y \in S : x <= y
Max(S) == CHOOSE x \in S : \A y \in S : y <= x

\* ------------------------------------------------------------------------
\* Board
\* ------------------------------------------------------------------------
Board == [initial_values |-> ZeroGrid, current_values |-> ZeroGrid, notes |-> NoNotes]

load_puzzle(puzzle) ==
    [initial_values |-> puzzle, current_values |-> puzzle, notes |-> NoNotes]

get_value(b, row, col) == b.current_values[row][col]

\* mutant: the notes of the cell survive a digit
set_value_keeps_notes(b, row, col, value) ==
    IF b.initial_values[row][col] # 0
    THEN [board |-> b, ret |-> FALSE]
    ELSE [board |-> [b EXCEPT !.current_values[row][col] = value], ret |-> TRUE]

\* mutant: initial_values and current_values are one grid (no deepcopy), so a
\* write lands in both
set_value_aliased(b, row, col, value) ==
    IF b.initial_values[row][col] # 0
    THEN [board |-> b, ret |-> FALSE]
    ELSE [board |-> [b EXCEPT !.current_values[row][col] = value,
                              !.initial_values[row][col] = value,
                              !.notes[row][col] = IF value # 0 THEN {} ELSE @],
          ret |-> TRUE]

set_value(b, row, col, value) ==
    IF b.initial_values[row][col] # 0
    THEN [board |-> b, ret |-> FALSE]
    ELSE [board |-> [b EXCEPT !.current_values[row][col] = value,
                              !.notes[row][col] = IF value # 0 THEN {} ELSE @],
          ret |-> TRUE]

is_given(b, row, col) == b.initial_values[row][col] # 0

is_valid_placement(b, row, col, value) ==
    IF value = 0
    THEN TRUE
    ELSE /\ \A c \in Idx : ~ (c # col /\ b.current_values[row][c] = value)
         /\ \A r \in Idx : ~ (r # row /\ b.current_values[r][col] = value)
         /\ LET box_row == 3 * (row \div 3)
                box_col == 3 * (col \div 3)
            IN \A r \in box_row .. (box_row + 2) :
                 \A c \in box_col .. (box_col + 2) :
                   ~ (<<r, c>> # <<row, col>> /\ b.current_values[r][c] = value)

\* toggle_note that only ever adds the digit
toggle_note_add_only(b, row, col, digit) ==
    IF b.current_values[row][col] # 0
    THEN [board |-> b, ret |-> FALSE]
    ELSE [board |-> [b EXCEPT !.notes[row][col] = @ \cup {digit}], ret |-> TRUE]

toggle_note(b, row, col, digit) ==
    IF b.current_values[row][col] # 0
    THEN [board |-> b, ret |-> FALSE]
    ELSE [board |-> [b EXCEPT !.notes[row][col] =
                        IF digit \in @ THEN @ \ {digit} ELSE @ \cup {digit}],
          ret |-> TRUE]

get_notes(b, row, col) == b.notes[row][col]

\* Board.is_complete: no 0 in any row, then every row, column and box has 9
\* distinct entries.
is_complete_board(b) ==
    LET cv == b.current_values
    IN /\ \A r \in Idx : \A c \in Idx : cv[r][c] # 0
       /\ \A r \in Idx : Cardinality({cv[r][c] : c \in Idx}) = 9
       /\ \A c \in Idx : Cardinality({cv[r][c] : r \in Idx}) = 9
       /\ \A box_row \in 0 .. 2 : \A box_col \in 0 .. 2 :
            Cardinality({cv[box_row * 3 + r][box_col * 3 + c] :
                            r \in 0 .. 2, c \in 0 .. 2}) = 9

get_empty_cells(b) ==
    {<<r, c>> \in Cells : b.current_values[r][c] = 0}

\* ------------------------------------------------------------------------
\* Hint oracle
\* ------------------------------------------------------------------------
None == "None"

\* First cell in row-major order of a non-empty set of coordinates.
FirstCell(S) == CHOOSE x \in S : \A y \in S : Pos(x[1], x[2]) <= Pos(y[1], y[2])

\* get_hint with its two scans in the other order: empty cells first
get_hint_empty_first(puzzle, solution) ==
    LET wrong == {x \in Cells : puzzle[x[1]][x[2]] # 0
                                /\ puzzle[x[1]][x[2]] # solution[x[1]][x[2]]}
        empty == {x \in Cells : puzzle[x[1]][x[2]] = 0}
    IN IF empty # {}
       THEN LET x == FirstCell(empty) IN <<x[1], x[2], solution[x[1]][x[2]]>>
       ELSE IF wrong # {}
       THEN LET x == FirstCell(wrong) IN <<x[1], x[2], solution[x[1]][x[2]]>>
       ELSE None

get_hint(puzzle, solution) ==
    LET wrong == {x \in Cells : puzzle[x[1]][x[2]] # 0
                                /\ puzzle[x[1]][x[2]] # solution[x[1]][x[2]]}
        empty == {x \in Cells : puzzle[x[1]][x[2]] = 0}
    IN IF wrong # {}
       THEN LET x == FirstCell(wrong) IN <<x[1], x[2], solution[x[1]][x[2]]>>
       ELSE IF empty # {}
       THEN LET x == FirstCell(empty) IN <<x[1], x[2], solution[x[1]][x[2]]>>
       ELSE None

\* ------------------------------------------------------------------------
\* GameState
\* ------------------------------------------------------------------------
Move(row, col, old_value, new_value, old_notes, new_notes) ==
    [row |-> row, col |-> col, old_value |-> old_value, new_value |-> new_value,
     old_notes |-> old_notes, new_notes |-> new_notes]

\* GameState.__init__
GameState ==
    [board |-> Board, solution |-> << >>, difficulty |-> "medium", timer |-> 0,
     history |-> << >>, history_index |-> -1, notes_mode |-> FALSE,
     is_paused |-> FALSE, is_complete |-> FALSE, selected_cell |-> None]

\* new_game without the reset of lines 45-46: the history is kept
new_game_keeps_history(g, difficulty, puzzle, sol) ==
    [board |-> load_puzzle(puzzle), solution |-> sol, difficulty |-> difficulty,
     timer |-> 0, history |-> g.history, history_index |-> g.history_index,
     notes_mode |-> FALSE, is_paused |-> FALSE, is_complete |-> FALSE,
     selected_cell |-> <<0, 0>>]

\* mutant: the pair of generate_puzzle unpacked in the other order, so the
\* solved grid is loaded as the puzzle and the puzzle kept as the solution
new_game_swapped_pair(g, difficulty, puzzle, sol) ==
    [board |-> load_puzzle(sol), solution |-> puzzle, difficulty |-> difficulty,
     timer |-> 0, history |-> << >>, history_index |-> -1, notes_mode |-> FALSE,
     is_paused |-> FALSE, is_complete |-> FALSE, selected_cell |-> <<0, 0>>]

\* new_game with the (puzzle, solution) pair that generate_puzzle returned.
new_game(g, difficulty, puzzle, sol) ==
    [board |-> load_puzzle(puzzle), solution |-> sol, difficulty |-> difficulty,
     timer |-> 0, history |-> << >>, history_index |-> -1, notes_mode |-> FALSE,
     is_paused |-> FALSE, is_complete |-> FALSE, selected_cell |-> <<0, 0>>]

\* mutant: the move is appended without cutting the redo branch
Record_no_truncate(g, move) ==
    [g EXCEPT !.history = Append(g.history, move),
              !.history_index = g.history_index + 1]

\* history[:history_index + 1] when the index is not at the end, then append.
Record(g, move) ==
    LET kept == IF g.history_index < Len(g.history) - 1
                THEN SubSeq(g.history, 1, g.history_index + 1)
                ELSE g.history
        hist == Append(kept, move)
    IN [g EXCEPT !.history = hist, !.history_index = Len(hist) - 1]

\* make_move past its guard: lines 60-85
do_move(g, row, col, value) ==
         LET old_value == get_value(g.board, row, col)
             old_notes == get_notes(g.board, row, col)
             toggled == toggle_note(g.board, row, col, value).board
             valued == set_value(g.board, row, col, value).board
             b == IF g.notes_mode /\ value # 0 THEN toggled ELSE valued
             move == IF g.notes_mode /\ value # 0
                     THEN Move(row, col, old_value, old_value, old_notes,
                               get_notes(toggled, row, col))
                     ELSE Move(row, col, old_value, value, old_notes, {})
             g1 == Record([g EXCEPT !.board = b], move)
         IN [g |-> [g1 EXCEPT !.is_complete =
                        IF is_complete_board(b) THEN TRUE ELSE @],
             ret |-> TRUE]

\* mutant: a finished game still accepts moves
make_move_after_complete(g, row, col, value) ==
    IF is_given(g.board, row, col)
    THEN [g |-> g, ret |-> FALSE]
    ELSE do_move(g, row, col, value)

make_move(g, row, col, value) ==
    IF g.is_complete \/ is_given(g.board, row, col)
    THEN [g |-> g, ret |-> FALSE]
    ELSE do_move(g, row, col, value)

\* undo past its guard: lines 92-97
do_undo(g) ==
    LET move == g.history[g.history_index + 1]
        b1 == set_value(g.board, move.row, move.col, move.old_value).board
        b2 == [b1 EXCEPT !.notes[move.row][move.col] = move.old_notes]
    IN [g |-> [g EXCEPT !.board = b2,
                        !.history_index = g.history_index - 1,
                        !.is_complete = FALSE],
        ret |-> TRUE]

\* mutant: the old value is written back but not the old notes
undo_values_only(g) ==
    IF g.history_index < 0
    THEN [g |-> g, ret |-> FALSE]
    ELSE LET move == g.history[g.history_index + 1]
             b1 == set_value(g.board, move.row, move.col, move.old_value).board
         IN [g |-> [g EXCEPT !.board = b1,
                             !.history_index = g.history_index - 1,
                             !.is_complete = FALSE],
             ret |-> TRUE]

\* mutant: the first move cannot be undone (guard off by one)
undo_off_by_one(g) ==
    IF g.history_index <= 0
    THEN [g |-> g, ret |-> FALSE]
    ELSE do_undo(g)

undo(g) ==
    IF g.history_index < 0
    THEN [g |-> g, ret |-> FALSE]
    ELSE do_undo(g)

\* redo past its guard: lines 104-112
do_redo(g) ==
    LET index == g.history_index + 1
        move == g.history[index + 1]
        b1 == set_value(g.board, move.row, move.col, move.new_value).board
        b2 == [b1 EXCEPT !.notes[move.row][move.col] = move.new_notes]
    IN [g |-> [g EXCEPT !.board = b2,
                        !.history_index = index,
                        !.is_complete = IF is_complete_board(b2) THEN TRUE ELSE @],
        ret |-> TRUE]

\* mutant: the guard compares with > instead of >=, so at the last entry the
\* index is advanced before history[history_index] raises IndexError
redo_off_by_one(g) ==
    IF g.history_index > Len(g.history) - 1
    THEN [g |-> g, ret |-> FALSE]
    ELSE IF g.history_index + 1 >= Len(g.history)
    THEN [g |-> [g EXCEPT !.history_index = g.history_index + 1], ret |-> FALSE]
    ELSE do_redo(g)

redo(g) ==
    IF g.history_index >= Len(g.history) - 1
    THEN [g |-> g, ret |-> FALSE]
    ELSE do_redo(g)

\* do_hint without lines 124-127: the move is made in the mode the player
\* is in
do_hint_in_notes_mode(g, hint) ==
    IF hint = None
    THEN [g |-> g, ret |-> None]
    ELSE [g |-> make_move(g, hint[1], hint[2], hint[3]).g, ret |-> hint]

\* mutant: do_hint without line 127, notes_mode is left off after the move
do_hint_no_restore(g, hint) ==
    IF hint = None
    THEN [g |-> g, ret |-> None]
    ELSE [g |-> make_move([g EXCEPT !.notes_mode = FALSE],
                          hint[1], hint[2], hint[3]).g,
          ret |-> hint]

\* apply_hint past line 120, given the hint get_hint returned: the hint is
\* returned whether or not the inner make_move succeeded; notes_mode is forced
\* off for the call and restored after it.
do_hint(g, hint) ==
    IF hint = None
    THEN [g |-> g, ret |-> None]
    ELSE LET old_notes_mode == g.notes_mode
             m == make_move([g EXCEPT !.notes_mode = FALSE],
                            hint[1], hint[2], hint[3])
         IN [g |-> [m.g EXCEPT !.notes_mode = old_notes_mode], ret |-> hint]

apply_hint(g) == do_hint(g, get_hint(g.board.current_values, g.solution))

toggle_notes_mode(g) == [g EXCEPT !.notes_mode = ~ @]

\* clear_cell without the test of line 146: every clear is recorded
clear_cell_always_records(g, row, col) ==
    IF is_given(g.board, row, col)
    THEN [g |-> g, ret |-> FALSE]
    ELSE LET old_value == get_value(g.board, row, col)
             old_notes == get_notes(g.board, row, col)
             b1 == set_value(g.board, row, col, 0).board
             b2 == [b1 EXCEPT !.notes[row][col] = {}]
             g1 == [g EXCEPT !.board = b2]
         IN [g |-> Record(g1, Move(row, col, old_value, 0, old_notes, {})),
             ret |-> TRUE]

clear_cell(g, row, col) ==
    IF is_given(g.board, row, col)
    THEN [g |-> g, ret |-> FALSE]
    ELSE LET old_value == get_value(g.board, row, col)
             old_notes == get_notes(g.board, row, col)
             b1 == set_value(g.board, row, col, 0).board
             b2 == [b1 EXCEPT !.notes[row][col] = {}]
             g1 == [g EXCEPT !.board = b2]
         IN [g |-> IF old_value # 0 \/ old_notes # {}
                   THEN Record(g1, Move(row, col, old_value, 0, old_notes, {}))
                   ELSE g1,
             ret |-> TRUE]

select_cell(g, row, col) ==
    IF 0 <= row /\ row < 9 /\ 0 <= col /\ col < 9
    THEN [g EXCEPT !.selected_cell = <<row, col>>]
    ELSE g

move_selection(g, dr, dc) ==
    IF g.selected_cell = None
    THEN [g EXCEPT !.selected_cell = <<0, 0>>]
    ELSE LET row == g.selected_cell[1]
             col == g.selected_cell[2]
             new_row == Max({0, Min({8, row + dr})})
             new_col == Max({0, Min({8, col + dc})})
         IN [g EXCEPT !.selected_cell = <<new_row, new_col>>]

\* Last cell in row-major order of a non-empty set of coordinates.
LastCell(S) == CHOOSE x \in S : \A y \in S : Pos(y[1], y[2]) <= Pos(x[1], x[2])

\* move_to_next_empty: a missing selection becomes (0,0) before the empty
\* cells are looked at; tuples compare in row-major order; empty_cells[0] is
\* the first empty cell, or the last one once the list is reversed.
move_to_next_empty(g, reverse) ==
    LET current == IF g.selected_cell = None THEN <<0, 0>> ELSE g.selected_cell
        g1 == [g EXCEPT !.selected_cell = current]
        empty_cells == get_empty_cells(g.board)
        before == {x \in empty_cells : Pos(x[1], x[2]) < Pos(current[1], current[2])}
        after == {x \in empty_cells : Pos(x[1], x[2]) > Pos(current[1], current[2])}
    IN IF empty_cells = {}
       THEN g1
       ELSE IF reverse
       THEN [g1 EXCEPT !.selected_cell =
                IF before # {} THEN LastCell(before) ELSE LastCell(empty_cells)]
       ELSE [g1 EXCEPT !.selected_cell =
                IF after # {} THEN FirstCell(after) ELSE FirstCell(empty_cells)]

\* mutant: the tick without the test of line 177
_tick_timer_always(g) == [g EXCEPT !.timer = @ + 1]

\* SudokuApp._tick_timer on the GameState: a second is added unless the game
\* is paused or complete
_tick_timer(g) ==
    IF ~ g.is_paused /\ ~ g.is_complete
    THEN [g EXCEPT !.timer = @ + 1]
    ELSE g

\* SudokuApp.action_deselect on the GameState
action_deselect(g) == [g EXCEPT !.selected_cell = None]

\* ------------------------------------------------------------------------
\* Storage
\* ------------------------------------------------------------------------
\* A Python value held by the Storage is written with its type:
\* [type |-> "NoneType"], [type |-> "number", v |-> n] for an int or a float,
\* [type |-> "bool", v |-> b], [type |-> "nan"], [type |-> "inf"] and
\* [type |-> "-inf"] for the floats json.load reads from NaN, Infinity and
\* -Infinity, [type |-> "str", v |-> characters], [type |-> "list", v |-> items]
\* and [type |-> "dict", items |-> function of the keys]; [type |-> "deep"] is
\* a list that json.load could read and that is nested deeper than json.dump
\* can follow from the frame _save is called in. A str, as a dict key and as
\* an argument, is the sequence of its characters.
Null == [type |-> "NoneType"]
EmptyDict == [type |-> "dict", items |-> [k \in {} |-> Null]]

\* the key "best_times"
best_times == <<"b", "e", "s", "t", "_", "t", "i", "m", "e", "s">>

\* Difficulty.value: the string of each member of the enum
difficulty_value(difficulty) ==
    CASE difficulty = "easy" -> <<"e", "a", "s", "y">>
      [] difficulty = "medium" -> <<"m", "e", "d", "i", "u", "m">>
      [] difficulty = "hard" -> <<"h", "a", "r", "d">>
      [] difficulty = "expert" -> <<"e", "x", "p", "e", "r", "t">>

\* the small letter of each ASCII capital
LowerCase ==
    [A |-> "a", B |-> "b", C |-> "c", D |-> "d", E |-> "e", F |-> "f",
     G |-> "g", H |-> "h", I |-> "i", J |-> "j", K |-> "k", L |-> "l",
     M |-> "m", N |-> "n", O |-> "o", P |-> "p", Q |-> "q", R |-> "r",
     S |-> "s", T |-> "t", U |-> "u", V |-> "v", W |-> "w", X |-> "x",
     Y |-> "y", Z |-> "z"]

\* str.lower on an ASCII string: every capital becomes its small letter,
\* every other character stays
lower(str) ==
    [i \in DOMAIN str |->
        IF str[i] \in DOMAIN LowerCase THEN LowerCase[str[i]] ELSE str[i]]

\* what _load returns when the file is missing or cannot be parsed
DefaultData ==
    [type |-> "dict",
     items |-> (best_times :>
        [type |-> "dict",
         items |-> [d \in {difficulty_value("easy"), difficulty_value("medium"),
                           difficulty_value("hard"), difficulty_value("expert")} |->
                      Null]])]

\* The scores file is [kind, doc]. kind tells what reading it does:
\*   "missing"            path.exists() is false
\*   "PermissionError"    path.exists() raises it (a directory of the path
\*                        may not be searched): line 19 is outside the try
\*   "IOError"            the file exists and open() raises an OSError
\*                        (a directory, a file that may not be read)
\*   "UnicodeDecodeError" the bytes are not UTF-8
\*   "JSONDecodeError"    the text is no JSON document (empty, cut short)
\*   "RecursionError"     json.load gives up on the nesting
\*   "ValueError"         json.load meets an integer with too many digits
\*   "json"               the text is the JSON document doc[1]
\* doc is << >> except for "json". _load catches JSONDecodeError and IOError
\* only; every other exception leaves it, and a document is returned as it
\* is, whatever its type.
_load(file) ==
    CASE file.kind = "json" -> [raises |-> "", ret |-> file.doc[1]]
      [] file.kind \in {"missing", "IOError", "JSONDecodeError"} ->
            [raises |-> "", ret |-> DefaultData]
      [] OTHER -> [raises |-> file.kind, ret |-> Null]

\* Storage.__init__ on that file; raises is the exception that left the
\* constructor, if any (there is no Storage then)
Storage(file) ==
    [_data |-> _load(file).ret, file |-> file, raises |-> _load(file).raises]

\* _save: open(path, "w") fails and the file is left alone, or it empties
\* the file and json.dump then writes the whole document, or the write fails
\* part way and leaves text that is no JSON document; the IOError is
\* swallowed in both failures. When no IOError comes and the document holds
\* a value nested too deep, json.dump raises RecursionError part way: the
\* text written so far stays in the file and the exception leaves _save.
_save(st, outcome) ==
    LET RECURSIVE TooDeep(_)
        TooDeep(v) ==
            \/ v.type = "deep"
            \/ v.type = "list" /\ \E i \in DOMAIN v.v : TooDeep(v.v[i])
            \/ v.type = "dict" /\ \E k \in DOMAIN v.items : TooDeep(v.items[k])
        cut == [st EXCEPT !.file = [kind |-> "JSONDecodeError", doc |-> << >>]]
    IN CASE outcome = "open_fails" -> [st |-> st, raises |-> ""]
         [] outcome = "write_fails" -> [st |-> cut, raises |-> ""]
         [] outcome = "written" /\ TooDeep(st._data) ->
               [st |-> cut, raises |-> "RecursionError"]
         [] outcome = "written" ->
               [st |-> [st EXCEPT !.file = [kind |-> "json", doc |-> <<st._data>>]],
                raises |-> ""]

\* self._data.get("best_times", {}): AttributeError when _data is no dict
get_all_best_times(st) ==
    IF st._data.type # "dict"
    THEN [raises |-> "AttributeError", ret |-> Null]
    ELSE IF best_times \in DOMAIN st._data.items
    THEN [raises |-> "", ret |-> st._data.items[best_times]]
    ELSE [raises |-> "", ret |-> EmptyDict]

\* AttributeError too when the value under "best_times" is no dict
get_best_time(st, difficulty) ==
    LET all == get_all_best_times(st)
    IN IF all.raises # ""
       THEN all
       ELSE IF all.ret.type # "dict"
       THEN [raises |-> "AttributeError", ret |-> Null]
       ELSE IF lower(difficulty) \in DOMAIN all.ret.items
       THEN [raises |-> "", ret |-> all.ret.items[lower(difficulty)]]
       ELSE [raises |-> "", ret |-> Null]

\* set_best_time that also takes a time equal to the stored one as a record
set_best_time_ties(st, difficulty, time, outcome) ==
    LET d == lower(difficulty)
        current_best == get_best_time(st, d)
        best == current_best.ret
    IN IF current_best.raises # ""
       THEN [st |-> st, ret |-> FALSE, raises |-> current_best.raises]
       ELSE IF best.type \in {"str", "list", "dict", "deep"}
       THEN [st |-> st, ret |-> FALSE, raises |-> "TypeError"]
       ELSE IF \/ best.type \in {"NoneType", "inf"}
               \/ best.type = "number" /\ time <= best.v
               \/ best.type = "bool" /\ time <= (IF best.v THEN 1 ELSE 0)
       THEN LET old == get_all_best_times(st).ret.items
                new == [type |-> "dict",
                        items |-> (d :> [type |-> "number", v |-> time]) @@ old]
                data == [st._data EXCEPT !.items = (best_times :> new) @@ @]
                saved == _save([st EXCEPT !._data = data], outcome)
            IN [st |-> saved.st, ret |-> saved.raises = "", raises |-> saved.raises]
       ELSE [st |-> st, ret |-> FALSE, raises |-> ""]

\* outcome is what happens to the write of _save; raises is the exception
\* that left the call, if any, and nothing is returned then (ret is FALSE):
\* get_best_time's at line 45, or the TypeError of time < current_best at
\* line 47 when the stored value is no number, both with nothing changed, or
\* the RecursionError of _save at line 52, after _data took the time. A
\* stored bool compares as 0 or 1, NaN is never beaten, -Infinity neither,
\* Infinity always.
set_best_time(st, difficulty, time, outcome) ==
    LET d == lower(difficulty)
        current_best == get_best_time(st, d)
        best == current_best.ret
    IN IF current_best.raises # ""
       THEN [st |-> st, ret |-> FALSE, raises |-> current_best.raises]
       ELSE IF best.type \in {"str", "list", "dict", "deep"}
       THEN [st |-> st, ret |-> FALSE, raises |-> "TypeError"]
       ELSE IF \/ best.type \in {"NoneType", "inf"}
               \/ best.type = "number" /\ time < best.v
               \/ best.type = "bool" /\ time < (IF best.v THEN 1 ELSE 0)
       THEN LET old == get_all_best_times(st).ret.items
                new == [type |-> "dict",
                        items |-> (d :> [type |-> "number", v |-> time]) @@ old]
                data == [st._data EXCEPT !.items = (best_times :> new) @@ @]
                saved == _save([st EXCEPT !._data = data], outcome)
            IN [st |-> saved.st, ret |-> saved.raises = "", raises |-> saved.raises]
       ELSE [st |-> st, ret |-> FALSE, raises |-> ""]

\* SudokuApp._check_completion on (GameState, Storage): the timer of a
\* complete game is submitted as a best time for the value of its
\* difficulty, and _update_best_time then shows the stored time when the
\* Stats widget exists (stats): its int(best) raises on NaN and on the
\* infinities. ret is is_record.
_check_completion(g, st, outcome, stats) ==
    IF ~ g.is_complete
    THEN [st |-> st, ret |-> FALSE, raises |-> ""]
    ELSE LET r == set_best_time(st, difficulty_value(g.difficulty), g.timer, outcome)
             best == get_best_time(r.st, difficulty_value(g.difficulty)).ret
         IN IF r.raises # "" \/ ~ stats
            THEN r
            ELSE IF best.type = "nan"
            THEN [r EXCEPT !.raises = "ValueError"]
            ELSE IF best.type \in {"inf", "-inf"}
            THEN [r EXCEPT !.raises = "OverflowError"]
            ELSE r

\* SudokuApp.action_digit and on_numpad_digit_pressed: a digit for the
\* selected cell, then the completion check
action_digit(g, st, digit, outcome, stats) ==
    IF g.selected_cell = None
    THEN [g |-> g, st |-> st, raises |-> ""]
    ELSE LET m == make_move(g, g.selected_cell[1], g.selected_cell[2], digit).g
             c == _check_completion(m, st, outcome, stats)
         IN [g |-> m, st |-> c.st, raises |-> c.raises]

\* SudokuApp.action_hint: the hint is applied, its cell selected, then the
\* completion check
action_hint(g, st, outcome, stats) ==
    LET h == apply_hint(g)
        m == IF h.ret = None THEN h.g ELSE select_cell(h.g, h.ret[1], h.ret[2])
        c == _check_completion(m, st, outcome, stats)
    IN [g |-> m, st |-> c.st, raises |-> c.raises]

\* ------------------------------------------------------------------------
\* Generator
\* ------------------------------------------------------------------------
DIFFICULTY_CLUES ==
    [easy |-> <<36, 40>>, medium |-> <<28, 35>>, hard |-> <<22, 27>>,
     expert |-> <<17, 21>>]

\* _is_valid without the 3x3 box check of lines 77-82
_is_valid_rows_cols(b, row, col, digit) ==
    /\ \A c \in Idx : b[row][c] # digit
    /\ \A r \in Idx : b[r][col] # digit

_is_valid(b, row, col, digit) ==
    /\ \A c \in Idx : b[row][c] # digit
    /\ \A r \in Idx : b[r][col] # digit
    /\ LET box_row == 3 * (row \div 3)
           box_col == 3 * (col \div 3)
       IN \A r \in box_row .. (box_row + 2) :
            \A c \in box_col .. (box_col + 2) : b[r][c] # digit

\* Row-major positions of the empty cells of a grid.
EmptyPositions(b) == {k \in 0 .. (N * N - 1) : b[k \div N][k % N] = 0}

\* solve_step without the test of lines 140-141: the digit loop goes on after
\* the counter has reached the limit
solve_step_no_abort(s, limit) ==
    IF s.mode = "call"
    THEN IF s.n >= limit
         THEN [s EXCEPT !.mode = "return"]
         ELSE LET e == EmptyPositions(s.b)
              IN IF e = {}
                 THEN [s EXCEPT !.n = @ + 1, !.mode = "return"]
                 ELSE LET k == Min(e)
                      IN [s EXCEPT !.stack = Append(@, [row |-> k \div N,
                                                        col |-> k % N,
                                                        digit |-> 0]),
                                   !.mode = "loop"]
    ELSE IF s.mode = "loop"
    THEN LET f == s.stack[Len(s.stack)]
             ds == {d \in (f.digit + 1) .. 9 : _is_valid(s.b, f.row, f.col, d)}
         IN IF ds = {}
            THEN [s EXCEPT !.stack = SubSeq(@, 1, Len(@) - 1), !.mode = "return"]
            ELSE LET d == Min(ds)
                 IN [s EXCEPT !.b[f.row][f.col] = d,
                              !.stack[Len(s.stack)].digit = d,
                              !.mode = "call"]
    ELSE IF s.mode = "return" /\ s.stack # << >>
    THEN LET f == s.stack[Len(s.stack)]
         IN [s EXCEPT !.b[f.row][f.col] = 0, !.mode = "loop"]
    ELSE [s EXCEPT !.mode = "done"]

\* solve_step with the test of lines 140-141 moved before the reset of line
\* 138: a frame that returns at the limit leaves its digit in the grid
solve_step_abort_keeps_digit(s, limit) ==
    IF s.mode = "call"
    THEN IF s.n >= limit
         THEN [s EXCEPT !.mode = "return"]
         ELSE LET e == EmptyPositions(s.b)
              IN IF e = {}
                 THEN [s EXCEPT !.n = @ + 1, !.mode = "return"]
                 ELSE LET k == Min(e)
                      IN [s EXCEPT !.stack = Append(@, [row |-> k \div N,
                                                        col |-> k % N,
                                                        digit |-> 0]),
                                   !.mode = "loop"]
    ELSE IF s.mode = "loop"
    THEN LET f == s.stack[Len(s.stack)]
             ds == {d \in (f.digit + 1) .. 9 : _is_valid(s.b, f.row, f.col, d)}
         IN IF ds = {}
            THEN [s EXCEPT !.stack = SubSeq(@, 1, Len(@) - 1), !.mode = "return"]
            ELSE LET d == Min(ds)
                 IN [s EXCEPT !.b[f.row][f.col] = d,
                              !.stack[Len(s.stack)].digit = d,
                              !.mode = "call"]
    ELSE IF s.mode = "return" /\ s.stack # << >>
    THEN LET f == s.stack[Len(s.stack)]
             b2 == [s.b EXCEPT ![f.row][f.col] = 0]
         IN IF s.n >= limit
            THEN [s EXCEPT !.stack = SubSeq(@, 1, Len(@) - 1)]
            ELSE [s EXCEPT !.b = b2, !.mode = "loop"]
    ELSE [s EXCEPT !.mode = "done"]

\* _count_solutions.solve, with Python's call stack made explicit.  A search
\* state is the shared grid b, the counter solutions[0] (n), the stack of the
\* active calls that found an empty cell (its coordinates and the digit its
\* for-loop is at) and where control is: "call" at the entry of solve, "loop"
\* at the head of the digit loop of the top frame, "return" when a call has
\* just returned to the top frame, "done" when the outermost call returned.
solve_step(s, limit) ==
    IF s.mode = "call"
    THEN IF s.n >= limit
         THEN [s EXCEPT !.mode = "return"]
         ELSE LET e == EmptyPositions(s.b)
              IN IF e = {}
                 THEN [s EXCEPT !.n = @ + 1, !.mode = "return"]
                 ELSE LET k == Min(e)
                      IN [s EXCEPT !.stack = Append(@, [row |-> k \div N,
                                                        col |-> k % N,
                                                        digit |-> 0]),
                                   !.mode = "loop"]
    ELSE IF s.mode = "loop"
    THEN LET f == s.stack[Len(s.stack)]
             ds == {d \in (f.digit + 1) .. 9 : _is_valid(s.b, f.row, f.col, d)}
         IN IF ds = {}
            THEN [s EXCEPT !.stack = SubSeq(@, 1, Len(@) - 1), !.mode = "return"]
            ELSE LET d == Min(ds)
                 IN [s EXCEPT !.b[f.row][f.col] = d,
                              !.stack[Len(s.stack)].digit = d,
                              !.mode = "call"]
    ELSE IF s.mode = "return" /\ s.stack # << >>
    THEN LET f == s.stack[Len(s.stack)]
             b2 == [s.b EXCEPT ![f.row][f.col] = 0]
         IN IF s.n >= limit
            THEN [s EXCEPT !.b = b2, !.stack = SubSeq(@, 1, Len(@) - 1)]
            ELSE [s EXCEPT !.b = b2, !.mode = "loop"]
    ELSE [s EXCEPT !.mode = "done"]

\* 2^k steps of the search, or fewer when the outermost call returns first.
RECURSIVE solve_run(_, _, _)
solve_run(s, limit, k) ==
    IF s.mode = "done" THEN s
    ELSE IF k = 0 THEN solve_step(s, limit)
    ELSE solve_run(solve_run(s, limit, k - 1), limit, k - 1)

\* lines 124 and 148: the counter at 0 and the outermost call of solve
solve_start(b) == [b |-> b, n |-> 0, stack |-> << >>, mode |-> "call"]

\* The search followed until the outermost call has returned, however many
\* steps that takes: 1 step, then 2, then 4, ...
solve(b, limit) ==
    LET RECURSIVE go(_, _)
        go(s, k) ==
            LET r == solve_run(s, limit, k)
            IN IF r.mode = "done" THEN r ELSE go(r, k + 1)
    IN go(solve_start(b), 0)

_count_solutions(b, limit) == solve(b, limit).n

\* ------------------------------------------------------------------------
\* _fill_board, with Python's call stack made explicit
\* ------------------------------------------------------------------------
\* Outcomes of random.shuffle(digits): the digits 1..9 rotated by k, and
\* 9..1.
Rotated(k) == [i \in 1 .. N |-> ((k + i - 1) % N) + 1]
Reversed == [i \in 1 .. N |-> N + 1 - i]

\* The order random.shuffle leaves in digits for the call at (row, col), under
\* the outcome rnd of the random source: "reversed", "guided" (the digit of
\* the grid rnd.sol comes first) or "rotated" (by rnd.a * row + rnd.b * col).
shuffle_digits(rnd, row, col) ==
    IF rnd.kind = "reversed" THEN Reversed
    ELSE IF rnd.kind = "guided" THEN Rotated(rnd.sol[row][col] - 1)
    ELSE Rotated(rnd.a * row + rnd.b * col)

\* A fill state is the grid b, the stack of the active calls that found an
\* empty cell (its coordinates, its shuffled digits and the index i its
\* for-loop is at), the value ret returned last and where control is: "call"
\* at the entry of _fill_board, "loop" at the head of the digit loop of the
\* top frame, "return" when a call has just returned, "done" when the
\* outermost call returned.
fill_start(rnd) ==
    [b |-> ZeroGrid, stack |-> << >>, ret |-> FALSE, mode |-> "call", rnd |-> rnd]

\* fill_step without the reset of line 60: a digit whose recursive call
\* failed stays in the grid while the next one is tried
fill_step_no_reset(f) ==
    IF f.mode = "call"
    THEN LET e == EmptyPositions(f.b)
         IN IF e = {}
            THEN [f EXCEPT !.ret = TRUE, !.mode = "return"]
            ELSE LET k == Min(e)
                     row == k \div N
                     col == k % N
                 IN [f EXCEPT !.stack = Append(@, [row |-> row, col |-> col,
                                    digits |-> shuffle_digits(f.rnd, row, col),
                                    i |-> 0]),
                              !.mode = "loop"]
    ELSE IF f.mode = "loop"
    THEN LET t == f.stack[Len(f.stack)]
             js == {j \in (t.i + 1) .. N : _is_valid(f.b, t.row, t.col, t.digits[j])}
         IN IF js = {}
            THEN [f EXCEPT !.stack = SubSeq(@, 1, Len(@) - 1), !.ret = FALSE,
                           !.mode = "return"]
            ELSE LET j == Min(js)
                 IN [f EXCEPT !.b[t.row][t.col] = t.digits[j],
                              !.stack[Len(f.stack)].i = j,
                              !.mode = "call"]
    ELSE IF f.mode = "return" /\ f.stack # << >>
    THEN IF f.ret
         THEN [f EXCEPT !.stack = SubSeq(@, 1, Len(@) - 1)]
         ELSE [f EXCEPT !.mode = "loop"]
    ELSE [f EXCEPT !.mode = "done"]

fill_step(f) ==
    IF f.mode = "call"
    THEN LET e == EmptyPositions(f.b)
         IN IF e = {}
            THEN [f EXCEPT !.ret = TRUE, !.mode = "return"]
            ELSE LET k == Min(e)
                     row == k \div N
                     col == k % N
                 IN [f EXCEPT !.stack = Append(@, [row |-> row, col |-> col,
                                    digits |-> shuffle_digits(f.rnd, row, col),
                                    i |-> 0]),
                              !.mode = "loop"]
    ELSE IF f.mode = "loop"
    THEN LET t == f.stack[Len(f.stack)]
             js == {j \in (t.i + 1) .. N : _is_valid(f.b, t.row, t.col, t.digits[j])}
         IN IF js = {}
            THEN [f EXCEPT !.stack = SubSeq(@, 1, Len(@) - 1), !.ret = FALSE,
                           !.mode = "return"]
            ELSE LET j == Min(js)
                 IN [f EXCEPT !.b[t.row][t.col] = t.digits[j],
                              !.stack[Len(f.stack)].i = j,
                              !.mode = "call"]
    ELSE IF f.mode = "return" /\ f.stack # << >>
    THEN LET t == f.stack[Len(f.stack)]
         IN IF f.ret
            THEN [f EXCEPT !.stack = SubSeq(@, 1, Len(@) - 1)]
            ELSE [f EXCEPT !.b[t.row][t.col] = 0, !.mode = "loop"]
    ELSE [f EXCEPT !.mode = "done"]

\* 2^k steps of _fill_board, or fewer when the outermost call returns first.
RECURSIVE fill_run(_, _)
fill_run(f, k) ==
    IF f.mode = "done" THEN f
    ELSE IF k = 0 THEN fill_step(f)
    ELSE fill_run(fill_run(f, k - 1), k - 1)

\* _fill_board followed until the outermost call has returned
_fill_board(rnd) ==
    LET RECURSIVE go(_, _)
        go(f, k) ==
            LET r == fill_run(f, k)
            IN IF r.mode = "done" THEN r ELSE go(r, k + 1)
    IN go(fill_start(rnd), 0)

\* lines 40-42: the grid is returned whatever _fill_board returned
_generate_solved_board(rnd) == _fill_board(rnd).b

\* _create_puzzle up to the for-loop: the copy of the solution, the target
\* drawn by random.randint and the order left by random.shuffle.  k counts the
\* cells of the order already visited; pc is "loop" at the head of the
\* for-loop, "test" once the cell is emptied and _count_solutions has
\* returned count, "done" at the return; value is the digit remembered.
create_start(sol, difficulty, target_clues, cells) ==
    [pc |-> "loop", difficulty |-> difficulty, solution |-> sol, puzzle |-> sol,
     target_clues |-> target_clues, cells |-> cells, k |-> 0,
     current_clues |-> 81, removed |-> << >>, value |-> 0, count |-> -1]

\* create_ends without the break of lines 101-102
create_ends_no_break(c) == c.k = Len(c.cells)

\* create_ends with < for <= at line 101: the break comes one removal late
create_ends_late_break(c) == c.k = Len(c.cells) \/ c.current_clues < c.target_clues

\* the for-loop is over: every cell was visited, or the break is taken
create_ends(c) == c.k = Len(c.cells) \/ c.current_clues <= c.target_clues

\* lines 105-109: remember the value, empty the cell, count the solutions
create_try(c) ==
    LET x == c.cells[c.k + 1]
        row == x[1]
        col == x[2]
        emptied == [c.puzzle EXCEPT ![row][col] = 0]
    IN [c EXCEPT !.pc = "test", !.value = c.puzzle[row][col], !.puzzle = emptied,
                 !.count = _count_solutions(emptied, 2)]

\* create_decide without the restore at line 111: every removal is kept
create_decide_keeps_all(c) ==
    [c EXCEPT !.pc = "loop", !.k = @ + 1, !.current_clues = @ - 1,
              !.removed = Append(@, c.cells[c.k + 1])]

\* lines 109-114: restore the cell, or keep it removed
create_decide(c) ==
    LET x == c.cells[c.k + 1]
        row == x[1]
        col == x[2]
    IN IF c.count # 1
       THEN [c EXCEPT !.pc = "loop", !.k = @ + 1, !.puzzle[row][col] = c.value]
       ELSE [c EXCEPT !.pc = "loop", !.k = @ + 1, !.current_clues = @ - 1,
                      !.removed = Append(@, x)]

create_step(c) ==
    IF c.pc = "test" THEN create_decide(c)
    ELSE IF create_ends(c) THEN [c EXCEPT !.pc = "done"]
    ELSE create_try(c)

\* 2^k steps of _create_puzzle, or fewer when it returns first.
RECURSIVE create_run(_, _)
create_run(c, k) ==
    IF c.pc = "done" THEN c
    ELSE IF k = 0 THEN create_step(c)
    ELSE create_run(create_run(c, k - 1), k - 1)

\* _create_puzzle followed until its return
_create_puzzle(sol, difficulty, target_clues, cells) ==
    LET RECURSIVE go(_, _)
        go(c, k) ==
            LET r == create_run(c, k)
            IN IF r.pc = "done" THEN r ELSE go(r, k + 1)
    IN go(create_start(sol, difficulty, target_clues, cells), 0).puzzle

\* generate_puzzle, given what the random source produced: the solved board,
\* the target and the shuffled cell order.
generate_puzzle(difficulty, rnd) ==
    [difficulty |-> difficulty,
     puzzle |-> _create_puzzle(rnd.solution, difficulty, rnd.target_clues, rnd.cells),
     solution |-> rnd.solution]

\* ------------------------------------------------------------------------
\* Outcomes of the random source explored
\* ------------------------------------------------------------------------
\* a board _generate_solved_board can return
Solution1 ==
    Grid(<<<<2, 1, 5, 4, 3, 8, 6, 7, 9>>,
           <<3, 6, 9, 2, 7, 1, 8, 4, 5>>,
           <<4, 7, 8, 6, 9, 5, 3, 2, 1>>,
           <<8, 2, 4, 9, 6, 7, 1, 5, 3>>,
           <<5, 3, 1, 8, 2, 4, 9, 6, 7>>,
           <<7, 9, 6, 5, 1, 3, 4, 8, 2>>,
           <<9, 8, 7, 3, 4, 2, 5, 1, 6>>,
           <<1, 4, 3, 7, 5, 6, 2, 9, 8>>,
           <<6, 5, 2, 1, 8, 9, 7, 3, 4>>>>)

\* The grid b with the cells of S emptied.
Emptied(b, S) ==
    [r \in Idx |-> [c \in Idx |-> IF <<r, c>> \in S THEN 0 ELSE b[r][c]]]

\* Solution1 without (5,6) and (8,8) and with (5,8) = 4: the filled cells are
\* consistent, and neither empty cell has a digit left.
Unsolvable == [Emptied(Solution1, {<<5, 6>>, <<8, 8>>}) EXCEPT ![5][8] = 4]

\* cells of Solution1 emptied in the grids counted: two overlapping
\* rectangles of interchangeable digits
CountPool == {<<0, 2>>, <<0, 5>>, <<0, 8>>, <<1, 2>>, <<1, 8>>, <<2, 2>>, <<2, 5>>}

\* grids passed to _count_solutions
CountGrids == {Emptied(b, S) : b \in {Solution1, Unsolvable}, S \in SUBSET CountPool}

\* Solution1 with a second 3 in row 8, column 7 and the last box
Duplicated == [Solution1 EXCEPT ![8][8] = 3]

\* grids passed to _count_solutions when any grid may be passed: full or
\* not, with or without a duplicate among the filled cells
AnyGrids ==
    CountGrids \cup {Emptied(Duplicated, S) : S \in SUBSET CountPool}

\* outcomes of the digit shuffles of _fill_board explored
FillOutcomes ==
    {[kind |-> "guided", sol |-> Solution1], [kind |-> "reversed"]}
    \cup {[kind |-> "rotated", a |-> x[1], b |-> x[2]] :
            x \in {<<0, 0>>, <<1, 0>>, <<1, 2>>, <<4, 0>>, <<3, 1>>}}

\* The row-major list of the 81 coordinates visited in the order
\* a * i + b mod 81: a permutation when 3 does not divide a.
Shuffled(a, b) ==
    [i \in 1 .. (N * N) |->
        <<((a * (i - 1) + b) % (N * N)) \div N, ((a * (i - 1) + b) % (N * N)) % N>>]

\* the order (0,0), (8,8), (8,7), ..., (0,1)
BackwardOrder == Shuffled(80, 0)

\* an order under which the removals go on down to 21 clues: the cells of
\* the last rows come first
SparseOrder ==
    <<<<8, 8>>, <<8, 2>>, <<8, 7>>, <<8, 3>>, <<8, 5>>, <<8, 4>>, <<7, 7>>, <<7, 8>>, <<7, 0>>,
      <<7, 3>>, <<8, 6>>, <<6, 4>>, <<8, 1>>, <<7, 6>>, <<7, 5>>, <<7, 2>>, <<5, 8>>, <<6, 8>>,
      <<8, 0>>, <<6, 6>>, <<7, 4>>, <<5, 1>>, <<6, 0>>, <<6, 3>>, <<7, 1>>, <<5, 5>>, <<5, 7>>,
      <<4, 6>>, <<4, 8>>, <<6, 7>>, <<3, 7>>, <<5, 2>>, <<4, 2>>, <<6, 5>>, <<3, 8>>, <<6, 2>>,
      <<4, 5>>, <<5, 4>>, <<6, 1>>, <<5, 6>>, <<4, 3>>, <<3, 1>>, <<3, 0>>, <<5, 3>>, <<4, 7>>,
      <<2, 8>>, <<5, 0>>, <<3, 4>>, <<3, 5>>, <<4, 4>>, <<2, 6>>, <<1, 7>>, <<4, 1>>, <<4, 0>>,
      <<3, 6>>, <<0, 7>>, <<3, 2>>, <<2, 5>>, <<0, 5>>, <<3, 3>>, <<2, 7>>, <<2, 0>>, <<2, 4>>,
      <<1, 1>>, <<1, 6>>, <<0, 2>>, <<2, 3>>, <<1, 5>>, <<0, 8>>, <<2, 2>>, <<2, 1>>, <<1, 8>>,
      <<0, 3>>, <<1, 3>>, <<0, 4>>, <<1, 4>>, <<1, 2>>, <<0, 0>>, <<1, 0>>, <<0, 1>>, <<0, 6>>>>

Shuffles == {Shuffled(10, 0), Shuffled(7, 0), BackwardOrder, SparseOrder}

Difficulties == {"easy", "medium", "hard", "expert"}

Targets(difficulty) ==
    DIFFICULTY_CLUES[difficulty][1] .. DIFFICULTY_CLUES[difficulty][2]

\* the results of generate_puzzle that new_game loads
Generated ==
    {generate_puzzle("easy",
        [solution |-> Solution1, target_clues |-> 40, cells |-> Shuffled(10, 0)])}

\* ------------------------------------------------------------------------
\* State
\* ------------------------------------------------------------------------
VARIABLES
    board,          \* GameState.board: initial_values, current_values, notes
    solution,       \* GameState.solution
    difficulty,     \* GameState.difficulty
    timer,          \* GameState.timer
    history,        \* GameState.history
    history_index,  \* GameState.history_index
    notes_mode,     \* GameState.notes_mode
    is_paused,      \* GameState.is_paused
    is_complete,    \* GameState.is_complete
    selected_cell,  \* GameState.selected_cell
    gen,            \* the generator call in progress (_create_puzzle,
                    \* _fill_board or _count_solutions): its locals
    moves,          \* history-appending calls made since the initial state
    last,           \* the last call: its name, whether it returned a truthy
                    \* value, and history_index / len(history) before it
    storage,        \* SudokuApp.storage: Storage._data and the scores file
    submitted       \* per difficulty, the least of the number the Storage
                    \* started with and the times passed to set_best_time
                    \* since, if there is any

vars == <<board, solution, difficulty, timer, history, history_index, notes_mode,
          is_paused, is_complete, selected_cell, gen, moves, last, storage,
          submitted>>

\* everything but the generator call
game_vars == <<board, solution, difficulty, timer, history, history_index,
               notes_mode, is_paused, is_complete, selected_cell, moves, last,
               storage, submitted>>

\* The GameState object held by the variables.
GS ==
    [board |-> board, solution |-> solution, difficulty |-> difficulty,
     timer |-> timer, history |-> history, history_index |-> history_index,
     notes_mode |-> notes_mode, is_paused |-> is_paused,
     is_complete |-> is_complete, selected_cell |-> selected_cell]

Holds(g) ==
    /\ board = g.board
    /\ solution = g.solution
    /\ difficulty = g.difficulty
    /\ timer = g.timer
    /\ history = g.history
    /\ history_index = g.history_index
    /\ notes_mode = g.notes_mode
    /\ is_paused = g.is_paused
    /\ is_complete = g.is_complete
    /\ selected_cell = g.selected_cell

Becomes(g) ==
    /\ board' = g.board
    /\ solution' = g.solution
    /\ difficulty' = g.difficulty
    /\ timer' = g.timer
    /\ history' = g.history
    /\ history_index' = g.history_index
    /\ notes_mode' = g.notes_mode
    /\ is_paused' = g.is_paused
    /\ is_complete' = g.is_complete
    /\ selected_cell' = g.selected_cell

\* ------------------------------------------------------------------------
\* Inputs explored
\* ------------------------------------------------------------------------
\* cells the player acts on: a given cell and the last two empty cells of the
\* generated puzzles in row-major order
MoveCells == {<<8, 0>>, <<8, 7>>, <<8, 8>>}
\* values entered: 0 and the solution digits of the two empty cells
MoveValues == {0, 3, 4}
\* empty cells left by the games in progress the exploration starts from
CellsLeft == {0, 1, 2}

\* The game after the player has taken hints until `left` cells are empty.
RECURSIVE HintsUntil(_, _)
HintsUntil(g, left) ==
    IF Cardinality(get_empty_cells(g.board)) <= left
    THEN g
    ELSE HintsUntil(apply_hint(g).g, left)

\* States the exploration starts from: the constructed GameState, and for each
\* generated puzzle the new game and games played with hints up to the last
\* few empty cells.
StartStates ==
    {GameState}
    \cup {new_game(GameState, p.difficulty, p.puzzle, p.solution) : p \in Generated}
    \cup {HintsUntil(new_game(GameState, p.difficulty, p.puzzle, p.solution), left) :
            p \in Generated, left \in CellsLeft}

Appended(g) ==
    IF g.history # history \/ g.history_index # history_index THEN 1 ELSE 0

Call(op, ret) ==
    [op |-> op, ret |-> ret, index |-> history_index, len |-> Len(history)]

\* A call of new_game: the pair generate_puzzle returned to it, and the fields
\* the GameState had before the call.
NewGameCall(p) ==
    [op |-> "new_game", ret |-> TRUE, index |-> history_index, len |-> Len(history),
     difficulty |-> p.difficulty, puzzle |-> p.puzzle, solution |-> p.solution,
     was |-> [difficulty |-> difficulty, timer |-> timer, notes_mode |-> notes_mode,
              is_complete |-> is_complete, selected_cell |-> selected_cell]]

\* The times on record under the name of every difficulty when a Storage is
\* constructed: the number stored for it, if a number is.
Recorded(st) ==
    [d \in {difficulty_value(x) : x \in Difficulties} |->
        IF st.raises = "" /\ get_best_time(st, d).ret.type = "number"
        THEN {get_best_time(st, d).ret.v}
        ELSE {}]

\* the Storage of an application that found no scores file
NoScores ==
    /\ storage = Storage([kind |-> "missing", doc |-> << >>])
    /\ submitted = Recorded(Storage([kind |-> "missing", doc |-> << >>]))

\* no generator call is in progress while the game is played
NoCall == [pc |-> "idle"]

Init ==
    /\ \E g \in StartStates : Holds(g)
    /\ gen = NoCall
    /\ moves = 0
    /\ last = Call("init", TRUE)
    /\ NoScores

\* ------------------------------------------------------------------------
\* Actions: one per GameState operation
\* ------------------------------------------------------------------------
\* The application starts a game (on_mount) before any handler can run.
Started == solution # << >>

NewGame ==
    \E p \in Generated :
        /\ Becomes(new_game(GS, p.difficulty, p.puzzle, p.solution))
        /\ moves' = 0
        /\ last' = NewGameCall(p)
        /\ UNCHANGED <<gen, storage, submitted>>

MakeMove ==
    \E x \in MoveCells, value \in MoveValues :
        LET r == make_move(GS, x[1], x[2], value)
        IN /\ Started
           /\ moves < MaxMoves
           /\ Becomes(r.g)
           /\ moves' = moves + Appended(r.g)
           /\ last' = Call("make_move", r.ret)
           /\ UNCHANGED <<gen, storage, submitted>>

ClearCell ==
    \E x \in MoveCells :
        LET r == clear_cell(GS, x[1], x[2])
        IN /\ Started
           /\ moves < MaxMoves
           /\ Becomes(r.g)
           /\ moves' = moves + Appended(r.g)
           /\ last' = Call("clear_cell", r.ret)
           /\ UNCHANGED <<gen, storage, submitted>>

Undo ==
    LET r == undo(GS)
    IN /\ Started
       /\ history_index < 0 \/ Len(history) - 1 - history_index < MaxRedo
       /\ Becomes(r.g)
       /\ last' = Call("undo", r.ret)
       /\ UNCHANGED <<moves, gen, storage, submitted>>

Redo ==
    LET r == redo(GS)
    IN /\ Started
       /\ Becomes(r.g)
       /\ last' = Call("redo", r.ret)
       /\ UNCHANGED <<moves, gen, storage, submitted>>

ApplyHint ==
    /\ Started
    /\ moves < MaxMoves
    /\ LET r == apply_hint(GS)
       IN /\ Becomes(r.g)
          /\ moves' = moves + Appended(r.g)
          /\ last' = Call("apply_hint", r.ret # None)
          /\ UNCHANGED <<gen, storage, submitted>>

ToggleNotesMode ==
    /\ Started
    /\ Becomes(toggle_notes_mode(GS))
    /\ last' = Call("toggle_notes_mode", TRUE)
    /\ UNCHANGED <<moves, gen, storage, submitted>>

Next ==
    \/ NewGame
    \/ MakeMove
    \/ ClearCell
    \/ Undo
    \/ Redo
    \/ ApplyHint
    \/ ToggleNotesMode

Spec == Init /\ [][Next]_vars

\* ------------------------------------------------------------------------
\* Generator specification: one _create_puzzle call, a step per loop pass
\* ------------------------------------------------------------------------
InitGen ==
    /\ Holds(GameState)
    /\ moves = 0
    /\ last = Call("init", TRUE)
    /\ NoScores
    /\ \E d \in Difficulties, sol \in {Solution1}, cells \in Shuffles :
          \E target_clues \in Targets(d) :
              /\ \/ cells # SparseOrder /\ N * N - target_clues <= MaxRemoved
                 \/ cells = BackwardOrder
                 \/ cells = SparseOrder /\ d \in {"hard", "expert"}
              /\ gen = create_start(sol, d, target_clues, cells)

\* the next cell of the order is emptied and the solutions are counted
CreateTry ==
    /\ gen.pc = "loop"
    /\ ~ create_ends(gen)
    /\ gen' = create_try(gen)
    /\ UNCHANGED game_vars

\* more than one solution (or none): the cell gets its value back
CreateRestore ==
    /\ gen.pc = "test"
    /\ gen.count # 1
    /\ gen' = create_decide(gen)
    /\ UNCHANGED game_vars

\* exactly one solution: the cell stays removed
CreateRemove ==
    /\ gen.pc = "test"
    /\ gen.count = 1
    /\ gen' = create_decide(gen)
    /\ UNCHANGED game_vars

\* the loop ends: the target is reached or every cell was visited
CreateReturn ==
    /\ gen.pc = "loop"
    /\ create_ends(gen)
    /\ gen' = [gen EXCEPT !.pc = "done"]
    /\ UNCHANGED game_vars

NextGen ==
    \/ CreateTry
    \/ CreateRestore
    \/ CreateRemove
    \/ CreateReturn

SpecGen == InitGen /\ [][NextGen]_vars

\* ------------------------------------------------------------------------
\* Session specification: games started, timed and navigated
\* ------------------------------------------------------------------------
\* the results of generate_puzzle that the new games of a session load
SessionGenerated ==
    Generated
    \cup {generate_puzzle("medium",
            [solution |-> Solution1, target_clues |-> 35, cells |-> Shuffled(10, 0)])}

SessionNewGame ==
    \E p \in SessionGenerated :
        /\ Becomes(new_game(GS, p.difficulty, p.puzzle, p.solution))
        /\ moves' = 0
        /\ last' = NewGameCall(p)
        /\ UNCHANGED <<gen, storage, submitted>>

TickTimer ==
    /\ Started
    /\ timer < MaxTimer
    /\ Becomes(_tick_timer(GS))
    /\ last' = Call("_tick_timer", TRUE)
    /\ UNCHANGED <<moves, gen, storage, submitted>>

\* select_cell on cells of the grid and on coordinates outside it
SelectCell ==
    \E x \in {<<0, 0>>, <<4, 4>>, <<8, 8>>, <<9, 0>>, <<0, -1>>} :
        /\ Started
        /\ Becomes(select_cell(GS, x[1], x[2]))
        /\ last' = Call("select_cell", TRUE)
        /\ UNCHANGED <<moves, gen, storage, submitted>>

\* move_selection by each of the four arrow keys
MoveSelection ==
    \E d \in {<<-1, 0>>, <<1, 0>>, <<0, -1>>, <<0, 1>>} :
        /\ Started
        /\ Becomes(move_selection(GS, d[1], d[2]))
        /\ last' = Call("move_selection", TRUE)
        /\ UNCHANGED <<moves, gen, storage, submitted>>

Deselect ==
    /\ Started
    /\ Becomes(action_deselect(GS))
    /\ last' = Call("action_deselect", TRUE)
    /\ UNCHANGED <<moves, gen, storage, submitted>>

\* action_next_empty and action_prev_empty
NextEmpty ==
    \E reverse \in BOOLEAN :
        /\ Started
        /\ Becomes(move_to_next_empty(GS, reverse))
        /\ last' = Call("move_to_next_empty", TRUE)
        /\ UNCHANGED <<moves, gen, storage, submitted>>

NextSession ==
    \/ SessionNewGame
    \/ TickTimer
    \/ SelectCell
    \/ MoveSelection
    \/ Deselect
    \/ NextEmpty
    \/ ToggleNotesMode
    \/ ApplyHint

SpecSession == Init /\ [][NextSession]_vars

\* ------------------------------------------------------------------------
\* Timed play: every GameState operation of a game, and the periodic tick
\* ------------------------------------------------------------------------
\* The timed play starts from the constructed GameState and, for each
\* generated puzzle, from the game one hint before its end.
InitTimer ==
    /\ \E g \in {GameState}
               \cup {HintsUntil(new_game(GameState, p.difficulty, p.puzzle,
                                         p.solution), 1) : p \in Generated} :
          Holds(g)
    /\ gen = NoCall
    /\ moves = 0
    /\ last = Call("init", TRUE)
    /\ NoScores

NextTimer ==
    \/ Next
    \/ TickTimer

SpecTimer == InitTimer /\ [][NextTimer]_vars

\* ------------------------------------------------------------------------
\* Board specification: a Board loaded and written through set_value
\* ------------------------------------------------------------------------
\* puzzles loaded: the solved board without some of its last three cells
BoardPuzzles == {Emptied(Solution1, S) : S \in SUBSET {<<8, 6>>, <<8, 7>>, <<8, 8>>}}

InitBoard ==
    /\ \E puzzle \in BoardPuzzles :
          Holds([GameState EXCEPT !.board = load_puzzle(puzzle)])
    /\ gen = NoCall
    /\ moves = 0
    /\ last = Call("load_puzzle", TRUE)
    /\ NoScores

BoardLoadPuzzle ==
    \E puzzle \in BoardPuzzles :
        /\ board' = load_puzzle(puzzle)
        /\ last' = Call("load_puzzle", TRUE)
        /\ UNCHANGED <<solution, difficulty, timer, history, history_index,
                       notes_mode, is_paused, is_complete, selected_cell, gen, moves,
                       storage, submitted>>

\* set_value on a given cell and on the last three cells of the grid; it
\* takes any integer
BoardSetValue ==
    \E x \in {<<8, 0>>, <<8, 6>>, <<8, 7>>, <<8, 8>>}, value \in {0, 3, 4, 7, 10} :
        LET r == set_value(board, x[1], x[2], value)
        IN /\ board' = r.board
           /\ last' = Call("set_value", r.ret)
           /\ UNCHANGED <<solution, difficulty, timer, history, history_index,
                          notes_mode, is_paused, is_complete, selected_cell, gen, moves,
                       storage, submitted>>

NextBoard ==
    \/ BoardLoadPuzzle
    \/ BoardSetValue

SpecBoard == InitBoard /\ [][NextBoard]_vars

\* ------------------------------------------------------------------------
\* Placement specification: the generator's check and the Board's check
\* called on the same grid, cell and digit
\* ------------------------------------------------------------------------
\* cells emptied or written: the 5 of row 0 and box 0, the 3 of row 0, the
\* 3 of column 2, and the last cell
ValidPool == {<<0, 2>>, <<0, 4>>, <<7, 2>>, <<8, 8>>}
\* grids loaded: a solved grid and one with a duplicate, with pool cells emptied
ValidGrids == {Emptied(b, S) : b \in {Solution1, Duplicated}, S \in SUBSET ValidPool}

InitValid ==
    /\ \E puzzle \in ValidGrids :
          Holds([GameState EXCEPT !.board = load_puzzle(puzzle)])
    /\ gen = NoCall
    /\ moves = 0
    /\ last = Call("load_puzzle", TRUE)
    /\ NoScores

ValidSetValue ==
    \E x \in ValidPool, value \in {0, 3, 5} :
        LET r == set_value(board, x[1], x[2], value)
        IN /\ board' = r.board
           /\ last' = Call("set_value", r.ret)
           /\ gen' = NoCall
           /\ UNCHANGED <<solution, difficulty, timer, history, history_index,
                          notes_mode, is_paused, is_complete, selected_cell, moves,
                          storage, submitted>>

\* _is_valid(grid, row, col, digit) and is_valid_placement(row, col, digit)
\* on the Board whose current values are grid, for the cells of the pool and
\* a cell that is always filled, and for 0 and every digit
ValidPlacement ==
    \E x \in ValidPool \cup {<<0, 0>>}, digit \in 0 .. 9 :
        /\ gen' = [pc |-> "_is_valid", b |-> board.current_values,
                   row |-> x[1], col |-> x[2], digit |-> digit,
                   ret |-> _is_valid(board.current_values, x[1], x[2], digit)]
        /\ last' = Call("is_valid_placement",
                        is_valid_placement(board, x[1], x[2], digit))
        /\ UNCHANGED <<board, solution, difficulty, timer, history, history_index,
                       notes_mode, is_paused, is_complete, selected_cell, moves,
                       storage, submitted>>

NextValid ==
    \/ ValidSetValue
    \/ ValidPlacement

SpecValid == InitValid /\ [][NextValid]_vars

\* ------------------------------------------------------------------------
\* Fill specification: one _fill_board call on the empty grid
\* ------------------------------------------------------------------------
InitFill ==
    /\ Holds(GameState)
    /\ moves = 0
    /\ last = Call("init", TRUE)
    /\ NoScores
    /\ \E rnd \in FillOutcomes : gen = fill_start(rnd)

\* a call finds the first empty cell and shuffles its digits
FillCall ==
    /\ gen.mode = "call"
    /\ EmptyPositions(gen.b) # {}
    /\ gen' = fill_step(gen)
    /\ UNCHANGED game_vars

\* a call finds no empty cell and returns True
FillComplete ==
    /\ gen.mode = "call"
    /\ EmptyPositions(gen.b) = {}
    /\ gen' = fill_step(gen)
    /\ UNCHANGED game_vars

\* the next valid digit of the shuffled order is placed and _fill_board called
FillPlace ==
    /\ gen.mode = "loop"
    /\ fill_step(gen).mode = "call"
    /\ gen' = fill_step(gen)
    /\ UNCHANGED game_vars

\* no digit is left for the cell: the call returns False
FillExhausted ==
    /\ gen.mode = "loop"
    /\ fill_step(gen).mode = "return"
    /\ gen' = fill_step(gen)
    /\ UNCHANGED game_vars

\* the inner call returned False: the cell is emptied and the loop goes on
FillBacktrack ==
    /\ gen.mode = "return"
    /\ gen.stack # << >>
    /\ ~ gen.ret
    /\ gen' = fill_step(gen)
    /\ UNCHANGED game_vars

\* the inner call returned True: so does the caller
FillPropagate ==
    /\ gen.mode = "return"
    /\ gen.stack # << >>
    /\ gen.ret
    /\ gen' = fill_step(gen)
    /\ UNCHANGED game_vars

\* the outermost call has returned
FillReturn ==
    /\ gen.mode = "return"
    /\ gen.stack = << >>
    /\ gen' = fill_step(gen)
    /\ UNCHANGED game_vars

NextFill ==
    \/ FillCall
    \/ FillComplete
    \/ FillPlace
    \/ FillExhausted
    \/ FillBacktrack
    \/ FillPropagate
    \/ FillReturn

SpecFill == InitFill /\ [][NextFill]_vars

\* a call that has started runs on until it returns
SpecFillRun == InitFill /\ [][NextFill]_vars /\ WF_vars(NextFill)

\* ------------------------------------------------------------------------
\* Count specification: one _count_solutions call
\* ------------------------------------------------------------------------
\* gen holds the grid passed (board), the limit and the search state s
InitCount ==
    /\ Holds(GameState)
    /\ moves = 0
    /\ last = Call("init", TRUE)
    /\ NoScores
    /\ \E b \in CountGrids, limit \in 1 .. MaxLimit :
          gen = [board |-> b, limit |-> limit, s |-> solve_start(b)]

CountStep == gen' = [gen EXCEPT !.s = solve_step(gen.s, gen.limit)]

\* a call of solve finds an empty cell and enters its digit loop
CountEnter ==
    /\ gen.s.mode = "call"
    /\ solve_step(gen.s, gen.limit).mode = "loop"
    /\ CountStep
    /\ UNCHANGED game_vars

\* a call of solve finds no empty cell and counts a solution
CountFound ==
    /\ gen.s.mode = "call"
    /\ solve_step(gen.s, gen.limit).mode = "return"
    /\ CountStep
    /\ UNCHANGED game_vars

\* the next valid digit is placed and solve is called
CountPlace ==
    /\ gen.s.mode = "loop"
    /\ solve_step(gen.s, gen.limit).mode = "call"
    /\ CountStep
    /\ UNCHANGED game_vars

\* no digit is left for the cell: the call returns
CountExhausted ==
    /\ gen.s.mode = "loop"
    /\ solve_step(gen.s, gen.limit).mode = "return"
    /\ CountStep
    /\ UNCHANGED game_vars

\* the inner call returned below the limit: the cell is emptied, the loop goes on
CountResume ==
    /\ gen.s.mode = "return"
    /\ gen.s.stack # << >>
    /\ gen.s.n < gen.limit
    /\ CountStep
    /\ UNCHANGED game_vars

\* the inner call returned at the limit: the cell is emptied, the call returns
CountAbort ==
    /\ gen.s.mode = "return"
    /\ gen.s.stack # << >>
    /\ gen.s.n >= gen.limit
    /\ CountStep
    /\ UNCHANGED game_vars

\* the outermost call has returned
CountReturn ==
    /\ gen.s.mode = "return"
    /\ gen.s.stack = << >>
    /\ CountStep
    /\ UNCHANGED game_vars

NextCount ==
    \/ CountEnter
    \/ CountFound
    \/ CountPlace
    \/ CountExhausted
    \/ CountResume
    \/ CountAbort
    \/ CountReturn

SpecCount == InitCount /\ [][NextCount]_vars

\* one _count_solutions call on any grid
InitCountAny ==
    /\ Holds(GameState)
    /\ moves = 0
    /\ last = Call("init", TRUE)
    /\ NoScores
    /\ \E b \in AnyGrids, limit \in 1 .. MaxLimit :
          gen = [board |-> b, limit |-> limit, s |-> solve_start(b)]

SpecCountAny == InitCountAny /\ [][NextCount]_vars

\* ------------------------------------------------------------------------
\* Storage specification: best times submitted to one Storage
\* ------------------------------------------------------------------------
\* scores files found at start: none, the seven that cannot be read or
\* parsed, one with records, a JSON object without best_times, one whose
\* best_times lacks the keys, a JSON list, an object whose best_times is
\* null, one whose entries are a string, NaN, Infinity and true, and one
\* with a record and a list nested too deep for json.dump
ScoreFiles ==
    LET Dict(items) == [type |-> "dict", items |-> items]
        Num(n) == [type |-> "number", v |-> n]
        Json(value) == [kind |-> "json", doc |-> <<value>>]
    IN {[kind |-> k, doc |-> << >>] :
            k \in {"missing", "PermissionError", "IOError", "UnicodeDecodeError",
                   "JSONDecodeError", "RecursionError", "ValueError"}}
       \cup
       {Json(Dict(best_times :>
                Dict((difficulty_value("easy") :> Num(1))
                     @@ (difficulty_value("medium") :> Num(2))
                     @@ (difficulty_value("hard") :> Null)
                     @@ (difficulty_value("expert") :> Null)))),
        Json(Dict(<<"v">> :> Num(1))),
        Json(Dict(best_times :> EmptyDict)),
        Json([type |-> "list", v |-> << >>]),
        Json(Dict(best_times :> Null)),
        Json(Dict(best_times :>
                Dict((difficulty_value("easy") :> [type |-> "str", v |-> <<"f">>])
                     @@ (difficulty_value("medium") :> [type |-> "nan"])
                     @@ (difficulty_value("hard") :> [type |-> "inf"])
                     @@ (difficulty_value("expert") :> [type |-> "bool", v |-> TRUE])))),
        Json(Dict((<<"v">> :> [type |-> "deep"])
                  @@ (best_times :> Dict(difficulty_value("easy") :> Num(2)))))}
\* difficulty names set_best_time is examined with: "easy", "EASY", "Hard"
StorageNames ==
    {<<"e", "a", "s", "y">>, <<"E", "A", "S", "Y">>, <<"H", "a", "r", "d">>}
\* times set_best_time is examined with, in seconds
StorageTimes == {0, 1, 2}

\* The game is a generated one played with hints up to its last empty cell,
\* with nothing selected or that cell selected, after one second.
InitStorage ==
    /\ \E p \in Generated :
          LET g == HintsUntil(new_game(GameState, p.difficulty, p.puzzle,
                                       p.solution), 1)
          IN \E x \in get_empty_cells(g.board) :
                \E sel \in {g, select_cell(g, x[1], x[2])} :
                    Holds([sel EXCEPT !.timer = 1])
    /\ gen = NoCall
    /\ moves = 0
    /\ last = [op |-> "init", ret |-> TRUE, raises |-> "", was |-> Null,
               index |-> history_index, len |-> Len(history)]
    /\ \E file \in ScoreFiles :
          /\ storage = Storage(file)
          /\ submitted = Recorded(Storage(file))

\* a call on the Storage the application constructed, for "EASY" or "Hard"
\* with a time below or above the one second of the game; the file is
\* written, cannot be opened, or the write fails
SetBestTime ==
    \E d \in {<<"E", "A", "S", "Y">>, <<"H", "a", "r", "d">>}, time \in {0, 2},
       outcome \in {"written", "open_fails", "write_fails"} :
        /\ storage.raises = ""
        /\ \E r \in {set_best_time(storage, d, time, outcome)} :
           /\ storage' = r.st
           /\ submitted' = IF r.raises \in {"", "RecursionError"}
                           THEN [submitted EXCEPT ![lower(d)] = {Min(@ \cup {time})}]
                           ELSE submitted
           /\ last' = [op |-> "set_best_time", ret |-> r.ret, raises |-> r.raises,
                       was |-> get_best_time(storage, d).ret,
                       index |-> history_index, len |-> Len(history)]
           /\ UNCHANGED <<board, solution, difficulty, timer, history,
                          history_index, notes_mode, is_paused, is_complete,
                          selected_cell, gen, moves>>

\* a digit key or a digit of the number pad: the digit of the solution for
\* the last empty cell or another one; the Stats widget is there or not
ActionDigit ==
    \E digit \in {3, 4}, outcome \in {"written", "open_fails", "write_fails"},
       stats \in BOOLEAN :
        /\ storage.raises = ""
        /\ moves < MaxMoves
        /\ \E r \in {action_digit(GS, storage, digit, outcome, stats)} :
           LET d == difficulty_value(r.g.difficulty)
               call == set_best_time(storage, d, r.g.timer, outcome)
               called == selected_cell # None /\ r.g.is_complete
           IN
           /\ Becomes(r.g)
           /\ moves' = moves + Appended(r.g)
           /\ storage' = r.st
           /\ submitted' = IF called /\ call.raises \in {"", "RecursionError"}
                           THEN [submitted EXCEPT ![d] = {Min(@ \cup {r.g.timer})}]
                           ELSE submitted
           /\ last' = [op |-> "action_digit", ret |-> called /\ call.ret,
                       raises |-> r.raises,
                       was |-> IF called THEN get_best_time(storage, d).ret ELSE Null,
                       index |-> history_index, len |-> Len(history)]
           /\ gen' = gen

\* the hint key
ActionHint ==
    \E outcome \in {"written", "open_fails", "write_fails"}, stats \in BOOLEAN :
        /\ storage.raises = ""
        /\ moves < MaxMoves
        /\ \E r \in {action_hint(GS, storage, outcome, stats)} :
           LET d == difficulty_value(r.g.difficulty)
               call == set_best_time(storage, d, r.g.timer, outcome)
               called == r.g.is_complete
           IN
           /\ Becomes(r.g)
           /\ moves' = moves + Appended(r.g)
           /\ storage' = r.st
           /\ submitted' = IF called /\ call.raises \in {"", "RecursionError"}
                           THEN [submitted EXCEPT ![d] = {Min(@ \cup {r.g.timer})}]
                           ELSE submitted
           /\ last' = [op |-> "action_hint", ret |-> called /\ call.ret,
                       raises |-> r.raises,
                       was |-> IF called THEN get_best_time(storage, d).ret ELSE Null,
                       index |-> history_index, len |-> Len(history)]
           /\ gen' = gen

NextStorage ==
    \/ SetBestTime
    \/ ActionDigit
    \/ ActionHint

SpecStorage == InitStorage /\ [][NextStorage]_vars

\* ------------------------------------------------------------------------
\* Hint specification: a game in progress finished with hints alone
\* ------------------------------------------------------------------------
\* The GameStates one call of the player leads to.
PlayedOnce(g) ==
    {g, toggle_notes_mode(g), undo(g).g, redo(g).g}
    \cup {make_move(g, x[1], x[2], value).g : x \in MoveCells, value \in MoveValues}
    \cup {clear_cell(g, x[1], x[2]).g : x \in MoveCells}

\* games in progress: started games after up to two calls of the player
HintStarts ==
    UNION {PlayedOnce(h) :
            h \in UNION {PlayedOnce(g) : g \in StartStates \ {GameState}}}

InitHint ==
    /\ \E g \in HintStarts : Holds(g)
    /\ gen = NoCall
    /\ moves = 0
    /\ last = Call("init", TRUE)
    /\ NoScores

\* apply_hint, as often as the player asks
TakeHint ==
    \E hint \in {get_hint(board.current_values, solution)} :
        \E r \in {do_hint(GS, hint)} :
            /\ Becomes(r.g)
            /\ moves' = moves + Appended(r.g)
            /\ last' = Call("apply_hint", r.ret # None)
            /\ UNCHANGED <<gen, storage, submitted>>

NextHint == TakeHint

\* the player keeps asking for hints
SpecHint == InitHint /\ [][NextHint]_vars /\ WF_vars(TakeHint)

\* ------------------------------------------------------------------------
\* Properties of GameState
\* ------------------------------------------------------------------------
MutatingOps == {"make_move", "clear_cell", "undo", "redo", "apply_hint"}

TopMove == history[history_index + 1]

\* The results of every mutating call the player can make in the current state.
Outcomes ==
    {make_move(GS, x[1], x[2], value).g : x \in MoveCells, value \in MoveValues}
    \cup {clear_cell(GS, x[1], x[2]).g : x \in MoveCells}
    \cup {undo(GS).g, redo(GS).g}
    \cup (IF Started THEN {apply_hint(GS).g} ELSE {})

\* C1: whenever undo() succeeds, undo() followed at once by redo() leaves all
\* 81 values, all 81 note sets and history_index as they were before the undo.
C1_UndoRedoRestoresBoard ==
    undo(GS).ret =>
        LET g2 == redo(undo(GS).g).g
        IN /\ g2.board.current_values = board.current_values
           /\ g2.board.notes = board.notes
           /\ g2.history_index = history_index

\* C2: a make_move or clear_cell that appends a Move, followed at once by
\* undo(), returns every cell's value and note set to what it was before the
\* operation.
C2_MoveThenUndoRestoresBoard ==
    /\ \A x \in MoveCells, value \in MoveValues :
          LET r == make_move(GS, x[1], x[2], value)
          IN r.ret => undo(r.g).ret /\ undo(r.g).g.board = board
    /\ \A x \in MoveCells :
          LET r == clear_cell(GS, x[1], x[2])
          IN (r.ret /\ Appended(r.g) = 1) =>
                undo(r.g).ret /\ undo(r.g).g.board = board

\* a note-bearing cell was overwritten or cleared, and undo brings the notes back
C2_Witness ==
    /\ last.op \in {"make_move", "clear_cell"}
    /\ last.ret
    /\ history_index >= 0
    /\ TopMove.old_notes # {}
    /\ get_notes(board, TopMove.row, TopMove.col) = {}
    /\ get_notes(undo(GS).g.board, TopMove.row, TopMove.col) = TopMove.old_notes

\* C3: right after a successful make_move, redo() fails: the entries beyond
\* the index held before the move are gone and history_index = len(history)-1.
C3_MoveDiscardsRedoBranch ==
    \A x \in MoveCells, value \in MoveValues :
        LET r == make_move(GS, x[1], x[2], value)
        IN r.ret =>
            /\ ~ redo(r.g).ret
            /\ r.g.history_index = Len(r.g.history) - 1
            /\ Len(r.g.history) = history_index + 2
            /\ SubSeq(r.g.history, 1, history_index + 1)
                  = SubSeq(history, 1, history_index + 1)

\* a successful make_move made while entries were waiting to be redone
C3_Witness ==
    /\ last.op = "make_move"
    /\ last.ret
    /\ last.index < last.len - 1
    /\ ~ redo(GS).ret

\* C4: history_index is -1 or a valid index of history.
C4_HistoryIndexInRange ==
    \/ history_index = -1
    \/ 0 <= history_index /\ history_index < Len(history)

\* an undone move: the index points inside a history with a redo branch
C4_Witness ==
    /\ last.op = "undo"
    /\ last.ret
    /\ 0 <= history_index
    /\ history_index < Len(history) - 1

\* C5: every given cell keeps its loaded value, and no operation other than
\* new_game changes the initial grid.
C5_GivenCellsNeverChange ==
    /\ \A r \in Idx, c \in Idx :
          board.initial_values[r][c] # 0 =>
              board.current_values[r][c] = board.initial_values[r][c]
    /\ \A g \in Outcomes : g.board.initial_values = board.initial_values

\* a write to a given cell was attempted and refused
C5_Witness ==
    /\ last.op \in {"make_move", "clear_cell"}
    /\ ~ last.ret
    /\ ~ is_complete
    /\ \E x \in MoveCells : is_given(board, x[1], x[2])

\* C6: every cell whose current value is nonzero has an empty note set.
C6_FilledCellsHaveNoNotes ==
    \A r \in Idx, c \in Idx :
        board.current_values[r][c] # 0 => board.notes[r][c] = {}

\* a digit was written into a cell that carried notes
C6_Witness ==
    /\ last.op \in {"make_move", "apply_hint", "redo"}
    /\ last.ret
    /\ history_index >= 0
    /\ TopMove.old_notes # {}
    /\ get_value(board, TopMove.row, TopMove.col) # 0

\* C7: after every mutating operation returns, Board.is_complete() implies the
\* is_complete flag.
C7_CompleteBoardSetsFlag ==
    last.op \in MutatingOps => (is_complete_board(board) => is_complete)

\* C8: make_move returns false when the flag is set or the cell is given, and
\* then changes nothing.
C8_RejectedMoveChangesNothing ==
    \A x \in MoveCells, value \in MoveValues :
        (is_complete \/ is_given(board, x[1], x[2])) =>
            make_move(GS, x[1], x[2], value) = [g |-> GS, ret |-> FALSE]

\* a move on a non-given cell was refused because the game is complete
C8_Witness ==
    /\ last.op = "make_move"
    /\ ~ last.ret
    /\ is_complete
    /\ \E x \in MoveCells : ~ is_given(board, x[1], x[2])

\* C9: undo() fails exactly at history_index = -1, redo() fails exactly at
\* history_index = len(history)-1, and a failed call changes nothing.
C9_UndoRedoFailAtTheEnds ==
    /\ ~ undo(GS).ret <=> history_index = -1
    /\ ~ redo(GS).ret <=> history_index = Len(history) - 1
    /\ ~ undo(GS).ret => undo(GS).g = GS
    /\ ~ redo(GS).ret => redo(GS).g = GS

\* undo failed after everything was undone, with moves still to redo
C9_Witness ==
    /\ last.op = "undo"
    /\ ~ last.ret
    /\ history_index = -1
    /\ Len(history) > 0
    /\ redo(GS).ret

\* C14: get_hint returns the row-major-first cell holding a nonzero value that
\* differs from the solution when there is one, otherwise the row-major-first
\* empty cell, each with the solution's digit; it returns None exactly when
\* the grid equals the solution.
C14_HintPrefersIncorrectCell ==
    Started =>
        LET cur == board.current_values
            h == get_hint(cur, solution)
            incorrect == {x \in Cells : cur[x[1]][x[2]] \notin {0, solution[x[1]][x[2]]}}
            empty == {x \in Cells : cur[x[1]][x[2]] = 0}
        IN /\ (h = None) <=> (cur = solution)
           /\ h # None =>
                /\ h[3] = solution[h[1]][h[2]]
                /\ incorrect # {} =>
                      /\ <<h[1], h[2]>> \in incorrect
                      /\ \A x \in incorrect : Pos(h[1], h[2]) <= Pos(x[1], x[2])
                /\ incorrect = {} =>
                      /\ <<h[1], h[2]>> \in empty
                      /\ \A x \in empty : Pos(h[1], h[2]) <= Pos(x[1], x[2])

\* a hint has just corrected an incorrect entry although empty cells come
\* before it in row-major order
C14_Witness ==
    /\ last.op = "apply_hint"
    /\ last.ret
    /\ history_index = last.index + 1
    /\ TopMove.old_value \notin {0, TopMove.new_value}
    /\ \E x \in get_empty_cells(board) : Pos(x[1], x[2]) < Pos(TopMove.row, TopMove.col)

\* C15: whenever apply_hint() returns a hint (r,c,v), the board then holds
\* v = solution[r][c] at (r,c), without notes, and exactly one Move for that
\* cell has been appended at history_index.
C15_ReturnedHintIsOnTheBoard ==
    Started =>
        LET r == apply_hint(GS)
        IN r.ret # None =>
            /\ r.ret[3] = solution[r.ret[1]][r.ret[2]]
            /\ get_value(r.g.board, r.ret[1], r.ret[2]) = r.ret[3]
            /\ get_notes(r.g.board, r.ret[1], r.ret[2]) = {}
            /\ r.g.history_index = history_index + 1
            /\ Len(r.g.history) = history_index + 2
            /\ r.g.history[history_index + 2].row = r.ret[1]
            /\ r.g.history[history_index + 2].col = r.ret[2]
            /\ r.g.history[history_index + 2].new_value = r.ret[3]

\* C16: a successful make_move that takes the value path (notes_mode off, or
\* value 0) leaves the cell without notes.
C16_ValueMoveClearsNotes ==
    \A x \in MoveCells, value \in MoveValues :
        LET r == make_move(GS, x[1], x[2], value)
        IN (r.ret /\ (~ notes_mode \/ value = 0)) =>
              get_notes(r.g.board, x[1], x[2]) = {}

\* C17: with notes_mode on and value # 0, a successful make_move leaves the
\* cell's value as it was and appends a Move whose old_value and new_value are
\* that value and whose old_notes and new_notes are the note sets before and
\* after; on an empty cell the note set afterwards is the previous one with
\* the digit toggled.
C17_NoteMoveTogglesAndRecords ==
    \A x \in MoveCells, value \in MoveValues \ {0} :
        LET r == make_move(GS, x[1], x[2], value)
            v0 == get_value(board, x[1], x[2])
            n0 == get_notes(board, x[1], x[2])
            n1 == get_notes(r.g.board, x[1], x[2])
        IN (notes_mode /\ r.ret) =>
            /\ get_value(r.g.board, x[1], x[2]) = v0
            /\ r.g.board.current_values = board.current_values
            /\ r.g.history_index = history_index + 1
            /\ r.g.history =
                  Append(SubSeq(history, 1, history_index + 1),
                         Move(x[1], x[2], v0, v0, n0, n1))
            /\ v0 = 0 =>
                  n1 = (IF value \in n0 THEN n0 \ {value} ELSE n0 \cup {value})

\* a note move has just removed a digit the empty cell carried as a note
C17_Witness ==
    /\ last.op = "make_move"
    /\ last.ret
    /\ notes_mode
    /\ history_index = last.index + 1
    /\ TopMove.old_value = 0
    /\ TopMove.new_value = 0
    /\ TopMove.new_notes # TopMove.old_notes
    /\ TopMove.new_notes \subseteq TopMove.old_notes
    /\ get_notes(board, TopMove.row, TopMove.col) = TopMove.new_notes

\* C18: clear_cell on a non-given cell returns true; on a cell with value 0
\* and no notes it changes nothing; otherwise it appends exactly one Move
\* (old_value, 0, old_notes, {}) after discarding the entries beyond
\* history_index, and the cell ends with value 0 and no notes.
C18_ClearRecordsOnlyChanges ==
    \A x \in MoveCells :
        LET r == clear_cell(GS, x[1], x[2])
            v0 == get_value(board, x[1], x[2])
            n0 == get_notes(board, x[1], x[2])
        IN ~ is_given(board, x[1], x[2]) =>
            /\ r.ret
            /\ get_value(r.g.board, x[1], x[2]) = 0
            /\ get_notes(r.g.board, x[1], x[2]) = {}
            /\ (v0 = 0 /\ n0 = {}) => r.g = GS
            /\ (v0 # 0 \/ n0 # {}) =>
                  /\ r.g.history_index = history_index + 1
                  /\ r.g.history =
                        Append(SubSeq(history, 1, history_index + 1),
                               Move(x[1], x[2], v0, 0, n0, {}))

\* in notes mode, with moves waiting to be redone, a clear of a cell holding a
\* digit has just been recorded and the redo branch is gone
C18_Witness ==
    /\ last.op = "clear_cell"
    /\ last.ret
    /\ notes_mode
    /\ last.index < last.len - 1
    /\ history_index = last.index + 1
    /\ Len(history) = history_index + 1
    /\ TopMove.old_value # 0
    /\ TopMove.new_value = 0
    /\ get_value(board, TopMove.row, TopMove.col) = 0

\* C19: after new_game(d) from any state, difficulty = d, history is empty and
\* history_index = -1 (undo and redo fail), timer = 0, notes_mode, is_paused
\* and is_complete are false, selected_cell = (0,0), the current and initial
\* values are the generated puzzle and all 81 note sets are empty.
C19_NewGameResetsEverything ==
    last.op = "new_game" =>
        /\ difficulty = last.difficulty
        /\ solution = last.solution
        /\ history = << >>
        /\ history_index = -1
        /\ ~ undo(GS).ret
        /\ ~ redo(GS).ret
        /\ timer = 0
        /\ ~ notes_mode
        /\ ~ is_paused
        /\ ~ is_complete
        /\ selected_cell = <<0, 0>>
        /\ board.current_values = last.puzzle
        /\ board.initial_values = last.puzzle
        /\ \A r \in Idx, c \in Idx : board.notes[r][c] = {}

\* new_game("medium") has just been called on a completed easy game that was
\* in notes mode, with history, time on the clock and the selection moved
C19_Witness ==
    /\ last.op = "new_game"
    /\ last.difficulty = "medium"
    /\ last.was.difficulty = "easy"
    /\ last.was.is_complete
    /\ last.was.notes_mode
    /\ last.was.timer > 0
    /\ last.len > 0
    /\ last.was.selected_cell # None
    /\ last.was.selected_cell # <<0, 0>>
    /\ difficulty = "medium"
    /\ history = << >>
    /\ timer = 0

\* C21: when the board has no empty cell, move_to_next_empty(reverse) leaves
\* selected_cell exactly as it was for either value of reverse, also when no
\* cell is selected.
C21_NextEmptyOnFullBoardIsNoOp ==
    get_empty_cells(board) = {} =>
        \A reverse \in BOOLEAN : move_to_next_empty(GS, reverse) = GS

\* C20: Board.is_complete() is true iff no cell is 0 and every row, column and
\* 3x3 box is a permutation of 1..9, on every grid load_puzzle and set_value
\* can produce.
C20_CompleteIffPermutations ==
    is_complete_board(board) <=>
        /\ \A r \in Idx, c \in Idx : board.current_values[r][c] # 0
        /\ \A r \in Idx : {board.current_values[r][c] : c \in Idx} = 1 .. 9
        /\ \A c \in Idx : {board.current_values[r][c] : r \in Idx} = 1 .. 9
        /\ \A br \in 0 .. 2, bc \in 0 .. 2 :
              {board.current_values[3 * br + r][3 * bc + c] : r \in 0 .. 2, c \in 0 .. 2}
                  = 1 .. 9

\* C23: in every reachable GameState the is_complete flag implies
\* Board.is_complete(): the flag is never set while the board has an empty
\* cell or a duplicate.
C23_FlagImpliesBoardComplete == is_complete => is_complete_board(board)

\* C24: whenever history_index = -1 the board is the loaded puzzle: every
\* current value equals the initial value and every note set is empty.
C24_NothingDoneMeansLoadedPuzzle ==
    history_index = -1 =>
        /\ board.current_values = board.initial_values
        /\ \A r \in Idx, c \in Idx : board.notes[r][c] = {}

\* everything has just been undone: a note move and a move that changed a
\* value are waiting to be redone, and the board is the puzzle again
C24_Witness ==
    /\ last.op = "undo"
    /\ last.ret
    /\ history_index = -1
    /\ Len(history) >= 2
    /\ \E i \in 1 .. Len(history) : history[i].new_notes # {}
    /\ \E i \in 1 .. Len(history) : history[i].new_value # history[i].old_value
    /\ board.current_values = board.initial_values
    /\ board.notes = NoNotes

\* C25: every Move in history records a change of the board (old_value #
\* new_value or old_notes # new_notes): a call that leaves the board as it was
\* (a cell's value entered again, a note toggled on a filled cell, a clear of
\* an empty cell) appends no entry.
C25_EveryMoveRecordsAChange ==
    \A i \in 1 .. Len(history) :
        \/ history[i].old_value # history[i].new_value
        \/ history[i].old_notes # history[i].new_notes

\* the number of cells whose value differs from the solution
Differing(b, sol) == Cardinality({x \in Cells : b.current_values[x[1]][x[2]] # sol[x[1]][x[2]]})

\* C26: while the is_complete flag is false and some cell differs from the
\* solution, each apply_hint() lowers the number of differing cells by exactly
\* one; asked again and again, apply_hint leads to board = solution with the
\* flag set, where apply_hint returns None.
C26_HintsFinishTheGame ==
    /\ [][(~ is_complete /\ Differing(board, solution) > 0) =>
            Differing(board', solution') = Differing(board, solution) - 1]_vars
    /\ (~ is_complete /\ Differing(board, solution) > 0)
          ~> (/\ board.current_values = solution
              /\ is_complete
              /\ apply_hint(GS).ret = None)
    /\ []((is_complete /\ board.current_values = solution) =>
            apply_hint(GS) = [g |-> GS, ret |-> None])

\* in notes mode, a hint has just replaced the last wrong digit and the game
\* is complete
C26_Witness ==
    /\ last.op = "apply_hint"
    /\ last.ret
    /\ notes_mode
    /\ is_complete
    /\ board.current_values = solution
    /\ history_index = last.index + 1
    /\ TopMove.old_value # 0
    /\ TopMove.old_value # TopMove.new_value
    /\ apply_hint(GS).ret = None

\* C31: once a game has been started, every given cell of the loaded puzzle
\* holds the digit of the stored solution, a hint is never on a given cell
\* (set_value accepts it), and no operation but new_game changes the stored
\* solution.
C31_HintIsNeverOnAGivenCell ==
    /\ [](Started =>
            /\ \A r \in Idx, c \in Idx :
                  board.initial_values[r][c] # 0 =>
                      board.initial_values[r][c] = solution[r][c]
            /\ \E h \in {get_hint(board.current_values, solution)} :
                  h # None =>
                      /\ ~ is_given(board, h[1], h[2])
                      /\ set_value(board, h[1], h[2], h[3]).ret)
    /\ [][Started /\ last'.op # "new_game" => solution' = solution]_vars

\* a wrong digit was entered next to given cells, and the hint is on it
C31_Witness ==
    /\ Started
    /\ last.op = "make_move"
    /\ last.ret
    /\ \E x \in Cells : is_given(board, x[1], x[2])
    /\ \E h \in {get_hint(board.current_values, solution)} :
          /\ h # None
          /\ board.current_values[h[1]][h[2]] \notin {0, h[3]}

\* C32: for every grid, every empty cell (r,c) of it and every digit d of
\* 1..9, _is_valid(grid, r, c, d) equals is_valid_placement(r, c, d) on the
\* Board whose current values are that grid.
C32_GeneratorAndBoardChecksAgree ==
    /\ \A r \in Idx, c \in Idx :
          board.current_values[r][c] = 0 =>
              \A d \in Digits :
                  _is_valid(board.current_values, r, c, d)
                      = is_valid_placement(board, r, c, d)
    /\ (/\ gen.pc = "_is_valid"
        /\ last.op = "is_valid_placement"
        /\ gen.b[gen.row][gen.col] = 0
        /\ gen.digit \in Digits) => (gen.ret = last.ret)

\* both checks refused a digit for an empty cell whose row and column lack
\* it: the digit is in the 3x3 box only
C32_Witness ==
    /\ gen.pc = "_is_valid"
    /\ last.op = "is_valid_placement"
    /\ gen.b = board.current_values
    /\ gen.b[gen.row][gen.col] = 0
    /\ gen.digit \in Digits
    /\ ~ gen.ret
    /\ ~ last.ret
    /\ \A k \in Idx : gen.b[gen.row][k] # gen.digit /\ gen.b[k][gen.col] # gen.digit

\* C33: apply_hint() leaves notes_mode exactly as it was before the call,
\* whether or not a hint was found and whether or not the inner make_move
\* succeeded.
C33_HintKeepsNotesMode ==
    /\ [](Started => apply_hint(GS).g.notes_mode = notes_mode)
    /\ [][last'.op = "apply_hint" => notes_mode' = notes_mode]_vars

\* a hint was applied while notes mode was on: the digit of the solution is
\* on the board and recorded, and notes mode is still on
C33_Witness ==
    /\ last.op = "apply_hint"
    /\ last.ret
    /\ notes_mode
    /\ history_index = last.index + 1
    /\ TopMove.new_value = solution[TopMove.row][TopMove.col]
    /\ get_value(board, TopMove.row, TopMove.col) = TopMove.new_value

\* C34: a timer tick adds exactly 1 second when neither is_paused nor
\* is_complete is set and leaves the timer unchanged otherwise; new_game
\* resets the timer to 0 and no other operation changes it, so the timer is
\* non-negative and never decreases between two new_game calls.
C34_TimerOnlyTicksForward ==
    /\ [](Started =>
            \A p \in BOOLEAN, c \in BOOLEAN :
                _tick_timer([GS EXCEPT !.is_paused = p, !.is_complete = c]).timer
                    = IF ~ p /\ ~ c THEN timer + 1 ELSE timer)
    /\ [](timer >= 0)
    /\ [][last'.op = "_tick_timer" =>
            timer' = IF ~ is_paused /\ ~ is_complete THEN timer + 1 ELSE timer]_vars
    /\ [][last'.op = "new_game" => timer' = 0]_vars
    /\ [][last'.op \notin {"_tick_timer", "new_game"} => timer' = timer]_vars
    /\ [][last'.op # "new_game" => timer' >= timer]_vars

\* a game was timed while it was played, then completed, and the tick after
\* that left the timer where it was
C34_Witness ==
    /\ last.op = "_tick_timer"
    /\ is_complete
    /\ timer >= 1
    /\ history_index >= 0

\* the time is strictly less than the stored value, as Python compares an
\* int with what json.load can leave in an entry: true counts as 1, nothing
\* is less than NaN or -Infinity, everything is less than Infinity
Beats(time, best) ==
    \/ best.type = "inf"
    \/ best.type = "number" /\ time < best.v
    \/ best.type = "bool" /\ time < (IF best.v THEN 1 ELSE 0)

\* the document holds a list nested too deep for json.dump
RECURSIVE HoldsDeep(_)
HoldsDeep(v) ==
    \/ v.type = "deep"
    \/ v.type = "list" /\ \E i \in DOMAIN v.v : HoldsDeep(v.v[i])
    \/ v.type = "dict" /\ \E k \in DOMAIN v.items : HoldsDeep(v.items[k])

ValidSolvedGrid(b) ==
    /\ \A r \in Idx : {b[r][c] : c \in Idx} = Digits
    /\ \A c \in Idx : {b[r][c] : r \in Idx} = Digits
    /\ \A br \in 0 .. (BOX - 1), bc \in 0 .. (BOX - 1) :
          {b[BOX * br + r][BOX * bc + c] : r \in 0 .. (BOX - 1), c \in 0 .. (BOX - 1)}
              = Digits

\* two different cells that share a row, a column or a 3x3 box
Peers(x, y) ==
    /\ x # y
    /\ \/ x[1] = y[1]
       \/ x[2] = y[2]
       \/ x[1] \div BOX = y[1] \div BOX /\ x[2] \div BOX = y[2] \div BOX

\* the filled cells of the grid are mutually consistent
Consistent(b) ==
    \A x \in Cells, y \in Cells :
        (Peers(x, y) /\ b[x[1]][x[2]] # 0) => b[x[1]][x[2]] # b[y[1]][y[2]]

\* The number of valid completions of a grid, by induction on its empty
\* cells: a full grid counts 1 when it is a valid solved grid; otherwise the
\* completions are split by the digit, held by no peer, given to an empty cell.
RECURSIVE NumCompletions(_), NumCompletionsWith(_, _, _)
NumCompletions(b) ==
    LET E == {x \in Cells : b[x[1]][x[2]] = 0}
    IN IF E = {}
       THEN IF ValidSolvedGrid(b) THEN 1 ELSE 0
       ELSE LET x == CHOOSE x \in E : TRUE
            IN NumCompletionsWith(b, x,
                  {d \in Digits : \A y \in Cells : Peers(x, y) => b[y[1]][y[2]] # d})

NumCompletionsWith(b, x, ds) ==
    IF ds = {} THEN 0
    ELSE LET d == CHOOSE d \in ds : TRUE
         IN NumCompletions([b EXCEPT ![x[1]][x[2]] = d])
            + NumCompletionsWith(b, x, ds \ {d})

\* the digits that no cell of the row, the column or the 3x3 box of x holds
Free(b, x) ==
    Digits \ ({b[x[1]][c] : c \in Idx} \cup {b[r][x[2]] : r \in Idx}
              \cup {b[BOX * (x[1] \div BOX) + i][BOX * (x[2] \div BOX) + j] :
                       i \in 0 .. (BOX - 1), j \in 0 .. (BOX - 1)})

\* The number of valid completions of a grid with many empty cells, counted
\* without a limit: a full grid counts 1 when it is a valid solved grid;
\* otherwise the counts for each free digit of an empty cell are added.
RECURSIVE Completions(_), CompletionsWith(_, _, _)
Completions(b) ==
    LET E == {x \in Cells : b[x[1]][x[2]] = 0}
    IN IF E = {}
       THEN IF ValidSolvedGrid(b) THEN 1 ELSE 0
       ELSE LET x == CHOOSE x \in E : TRUE
            IN CompletionsWith(b, x, Free(b, x))

CompletionsWith(b, x, ds) ==
    IF ds = {} THEN 0
    ELSE LET d == CHOOSE d \in ds : TRUE
         IN Completions([b EXCEPT ![x[1]][x[2]] = d])
            + CompletionsWith(b, x, ds \ {d})

\* C10: the puzzle _create_puzzle returns has exactly one valid completion and
\* _count_solutions(puzzle, 2) is 1 on it, and the puzzle at the head of every
\* pass of the cell-removal loop has exactly one valid completion.
C10_GeneratedPuzzleHasOneSolution ==
    /\ gen.pc \in {"loop", "done"} => Completions(gen.puzzle) = 1
    /\ gen.pc = "done" => _count_solutions(gen.puzzle, 2) = 1

\* an expert call returned at its target of 21 clues after removals were
\* refused and their cells restored, and both counts of the returned puzzle
\* are one
C10_Witness ==
    /\ gen.pc = "done"
    /\ gen.difficulty = "expert"
    /\ gen.current_clues = gen.target_clues
    /\ Cardinality({x \in Cells : gen.puzzle[x[1]][x[2]] # 0}) = 21
    /\ Len(gen.removed) = N * N - gen.target_clues
    /\ gen.k > Len(gen.removed)
    /\ \A i \in 1 .. Len(gen.removed) :
          gen.puzzle[gen.removed[i][1]][gen.removed[i][2]] = 0
    /\ _count_solutions(gen.puzzle, 2) = 1
    /\ Completions(gen.puzzle) = 1

\* C11: when _fill_board, started on the empty grid, has returned, it returned
\* True and the grid has no zero cell and every row, column and 3x3 box holds
\* each digit 1..9 exactly once.
C11_FilledBoardIsValid ==
    gen.mode = "done" => gen.ret /\ ValidSolvedGrid(gen.b)

\* the fill whose digits are rotated by the row number has returned after
\* backtracking: row 1 is not in the order 2..9,1 its cells tried first
C11_Witness ==
    /\ gen.mode = "done"
    /\ gen.ret
    /\ gen.rnd = [kind |-> "rotated", a |-> 1, b |-> 0]
    /\ gen.b[0] = [c \in Idx |-> c + 1]
    /\ gen.b[1] = [c \in Idx |-> <<4, 5, 6, 7, 8, 9, 2, 3, 1>>[c + 1]]

\* the number of nonzero cells of a grid
ClueCount(b) == Cardinality({x \in Cells : b[x[1]][x[2]] # 0})

\* C12 as stated: the returned puzzle has at most as many nonzero cells as the
\* max of its difficulty's clue range.
C12_CluesAtMostRangeMax ==
    gen.pc = "done" => ClueCount(gen.puzzle) <= DIFFICULTY_CLUES[gen.difficulty][2]

\* C12 amended: the target lies in the difficulty's range and, at the head of
\* every loop pass and at the return, the puzzle has current_clues nonzero
\* cells and at least target_clues of them; the returned puzzle has more than
\* target_clues only when all 81 cells were visited.
C12_CluesAtLeastTarget ==
    gen.pc \in {"loop", "done"} =>
        /\ gen.target_clues \in Targets(gen.difficulty)
        /\ ClueCount(gen.puzzle) = gen.current_clues
        /\ gen.current_clues >= gen.target_clues
        /\ (gen.pc = "done" /\ gen.current_clues > gen.target_clues) =>
              gen.k = Len(gen.cells)

\* an expert puzzle returned after all 81 cells were visited, with more
\* nonzero cells than the max of the expert range
C12_Witness ==
    /\ gen.pc = "done"
    /\ gen.difficulty = "expert"
    /\ gen.k = Len(gen.cells)
    /\ ClueCount(gen.puzzle) > DIFFICULTY_CLUES["expert"][2]

\* C27: a cell is tried only while current_clues > target_clues and a removal
\* takes one clue, so the count never goes below the target; the coordinates
\* are tried one after the other, each at most once; the returned puzzle has
\* at least target >= min clues of its difficulty, and exactly target unless
\* all 81 coordinates were tried.
C27_RemovalStopsAtTarget ==
    /\ [][/\ gen'.pc = "test" => gen.current_clues > gen.target_clues
          /\ gen'.current_clues \in {gen.current_clues, gen.current_clues - 1}
          /\ gen'.current_clues >= gen.target_clues
          /\ gen'.k \in {gen.k, gen.k + 1}
          /\ gen'.cells = gen.cells]_vars
    /\ [](/\ \A i, j \in 1 .. Len(gen.cells) : gen.cells[i] = gen.cells[j] => i = j
          /\ Len(gen.cells) = N * N
          /\ gen.pc = "done" =>
                /\ ClueCount(gen.puzzle) >= gen.target_clues
                /\ gen.target_clues >= DIFFICULTY_CLUES[gen.difficulty][1]
                /\ ClueCount(gen.puzzle) = gen.target_clues \/ gen.k = N * N)

\* a medium puzzle returned with exactly its target of clues, before the
\* order of cells was used up and after some removals were refused
C27_Witness ==
    /\ gen.pc = "done"
    /\ gen.difficulty = "medium"
    /\ ClueCount(gen.puzzle) = gen.target_clues
    /\ gen.k < Len(gen.cells)
    /\ gen.k > N * N - gen.target_clues

\* C13: on a consistent grid with limit >= 1, _count_solutions returns
\* min(limit, number of valid completions) and hands the grid back as it was;
\* and from the moment the counter has reached the limit, every step returns
\* from a frame and no digit is placed.
C13_CountIsMinOfLimitAndCompletions ==
    /\ [](gen.s.mode = "done" =>
            /\ Consistent(gen.board)
            /\ gen.s.n = Min({gen.limit, NumCompletions(gen.board)})
            /\ gen.s.b = gen.board)
    /\ [][gen.s.n >= gen.limit =>
            /\ gen'.s.n = gen.limit
            /\ gen'.s.mode \in {"return", "done"}
            /\ Len(gen'.s.stack) < Len(gen.s.stack) \/ gen'.s.mode = "done"
            /\ \A x \in Cells :
                  gen'.s.b[x[1]][x[2]] \in {0, gen.s.b[x[1]][x[2]]}]_vars

\* a count stopped at limit 2 on a grid with 3 completions, after frames that
\* still had digits to try returned
C13_Witness ==
    /\ gen.s.mode = "done"
    /\ gen.limit = 2
    /\ gen.s.n = 2
    /\ NumCompletions(gen.board) = 3

\* C28: for every input grid, fully filled grids and grids whose filled cells
\* hold a duplicate included, _count_solutions returns min(limit, number of
\* completions that are valid Sudoku grids).
C28_CountsOnlyValidGrids ==
    gen.s.mode = "done" =>
        gen.s.n = Min({gen.limit, NumCompletions(gen.board)})

\* C29: _count_solutions hands the grid back cell for cell as it was given,
\* on every exit path, the early exit at the limit included: a cell differs
\* from the grid given only while a frame is trying digits in it, and a frame
\* that returns leaves its cell at 0.
C29_CountRestoresTheGrid ==
    /\ [](/\ gen.s.mode = "done" => gen.s.b = gen.board
          /\ \A x \in Cells :
                gen.s.b[x[1]][x[2]] # gen.board[x[1]][x[2]] =>
                    /\ gen.board[x[1]][x[2]] = 0
                    /\ \E i \in 1 .. Len(gen.s.stack) :
                          gen.s.stack[i].row = x[1] /\ gen.s.stack[i].col = x[2])
    /\ [][Len(gen'.s.stack) < Len(gen.s.stack) =>
            LET f == gen.s.stack[Len(gen.s.stack)]
            IN gen'.s.b[f.row][f.col] = 0]_vars

\* a count has returned at limit 1 from a grid with several completions: the
\* frames left early, and the grid still has the empty cells it came with
C29_Witness ==
    /\ gen.s.mode = "done"
    /\ gen.limit = 1
    /\ gen.s.n = 1
    /\ NumCompletions(gen.board) >= 2
    /\ Cardinality(EmptyPositions(gen.board)) >= 4
    /\ gen.s.b = gen.board

\* C30: _fill_board called on the empty grid terminates and returns True
\* whatever the digit shuffles give, and every recursive call that returns
\* False leaves at 0 the cell it was trying to fill.
C30_FillTerminatesWithTrue ==
    /\ <>(gen.mode = "done" /\ gen.ret)
    /\ [](gen.mode = "done" => gen.ret)
    /\ [][(gen.mode = "loop" /\ gen'.mode = "return") =>
            LET t == gen.stack[Len(gen.stack)]
            IN /\ ~ gen'.ret
               /\ Len(gen'.stack) = Len(gen.stack) - 1
               /\ gen'.b[t.row][t.col] = 0
               /\ \A k \in EmptyPositions(gen'.b) : Pos(t.row, t.col) <= k]_vars

\* a recursive call has just returned False to a caller that had placed its
\* second or later digit: the callee's cell is the first empty one
C30_Witness ==
    /\ gen.mode = "return"
    /\ ~ gen.ret
    /\ gen.stack # << >>
    /\ gen.stack[Len(gen.stack)].i >= 2
    /\ gen.b[gen.stack[Len(gen.stack)].row][gen.stack[Len(gen.stack)].col] # 0
    /\ EmptyPositions(gen.b) # {}

====
